---- MODULE Spec2Model ----
(***************************************************************************)
(* Nested create/update of drf_ext (drf_ext/mixins.py): the                *)
(* NestedCreateUpdateMixin walks a serializer's writable relational        *)
(* fields, resolves every nested payload to a created or an updated        *)
(* related object, deletes the objects it created when a later sibling     *)
(* fails, and wraps nested validation errors under the field name.         *)
(*                                                                         *)
(* The store (Django's ORM) and the serializer validation (DRF) are the    *)
(* collaborators the mixin calls: they are modelled by what those calls    *)
(* do to tables of objects, and their failures are inputs of the calls.    *)
(***************************************************************************)
EXTENDS Integers, Sequences, FiniteSets, TLC

VARIABLES db,     \* db[model]: the table of a model, object id -> field values
          seq,    \* seq[model]: the last id the table handed out
          last,   \* the call that has returned or raised, with the store it
                  \* started from (phase "idle": no call yet)
          classes, \* the serializer classes defined so far, by name
          out,     \* what the last class statement or method call on a
                   \* class gave
          errors,  \* an error dict that update_error_dict fills
          appended, \* the update_error_dict calls made on errors, in order
          calls    \* the create() and update() calls of the callers that
                   \* run at the same time on the store, each with where it is

vars == <<db, seq, last, classes, out, errors, appended, calls>>

----------------------------------------------------------------------------
(* Bounds of the model *)

\* ids a table may hand out
MaxId == 4
\* `_pk` values a payload may carry: 1..MaxPk
MaxPk == 2
\* nested payloads (to-one mappings and to-many elements) in one top-level payload
MaxNodes == 3
\* elements of a to-many payload
MaxElems == 2
\* positional arguments of an exception
MaxArgs == 3
\* update_error_dict calls on one error dict
MaxCalls == 4
\* entries of a Meta.common_field_params
MaxEntries == 2
\* bases of a class statement
MaxBases == 2
\* callers whose calls run at the same time
MaxCallers == 2
\* nested payloads in the payload of a call that runs beside another
MaxResolved == 2

----------------------------------------------------------------------------
(* Values *)

\* Python's None for a to-one slot or an absent instance; ids start at 1
None == 0

NON_FIELD_ERRORS_KEY == "__all__"

\* the empty mapping
EmptyMap == <<>>

\* dict.pop(key) / a mapping without a key
Without(m, k) == [x \in DOMAIN m \ {k} |-> m[x]]

\* dict.update(other): the keys of other win
Updated(m, other) == other @@ m

\* Error contents: a dict, a list of messages (or of dicts) or a string
Dict(d) == [t |-> "dict", d |-> d, l |-> <<>>, s |-> ""]
List(l) == [t |-> "list", d |-> EmptyMap, l |-> l, s |-> ""]
Str(s) == [t |-> "str", d |-> EmptyMap, l |-> <<>>, s |-> s]
NoError == [t |-> "none", d |-> EmptyMap, l |-> <<>>, s |-> ""]

\* Exceptions: the class and the constructor's positional arguments (exc.args)
NoExc == [cls |-> "none", args |-> <<>>]
\* rest_framework.exceptions.ValidationError(detail): args = (detail,)
ValidationError(detail) == [cls |-> "ValidationError", args |-> <<detail>>]
\* django.core.exceptions.ValidationError(message): args = (message, None, None)
DjangoValidationError(message) ==
    [cls |-> "django_ValidationError", args |-> <<message, Str("None"), Str("None")>>]
OtherError(cls, text) == [cls |-> cls, args |-> <<Str(text)>>]

\* exc.__class__(detail)
SameClass(exc, detail) ==
    IF exc.cls = "django_ValidationError" THEN DjangoValidationError(detail)
    ELSE [cls |-> exc.cls, args |-> <<detail>>]

IsValidationError(exc) == exc.cls \in {"ValidationError", "django_ValidationError"}

\* One store call, as the trace of a call records it; path is filled in by
\* Logged: the nested field names that lead from the top-level payload to
\* the payload being resolved when the store is called
Op(op, model, id) ==
    [op |-> op, model |-> model, id |-> id, field |-> "", ids |-> <<>>, path |-> <<>>]
SetOp(model, id, field, ids) ==
    [op |-> "set", model |-> model, id |-> id, field |-> field, ids |-> ids,
     path |-> <<>>]

----------------------------------------------------------------------------
(* The schema: a client with a nested user that has a nested address, as   *)
(* the serializers of the sample application nest them, every relation a   *)
(* slot of its parent, and on the client a second nested to-one field and  *)
(* a nested to-many field; and a group, whose serializer has a scalar      *)
(* field, relational fields that are not nested serializers (a to-one and  *)
(* a to-many field of primary keys) and one nested field.                  *)

Models == {"Client", "User", "Address", "Tag", "Group"}

\* A new object's field values before the keyword arguments are applied
ModelDefaults(model) ==
    CASE model = "Client"  -> [user |-> None, address |-> None, tags |-> {}]
      [] model = "User"    -> [address |-> None]
      [] model = "Address" -> [zip_code |-> ""]
      [] model = "Tag"     -> [name |-> ""]
      [] model = "Group"   -> [name |-> "", home |-> None, address |-> None,
                               labels |-> {}]

\* model_meta.get_field_info(model).relations, in its order
RelationNames(model) ==
    CASE model = "Client" -> <<"user", "address", "tags">>
      [] model = "User"   -> <<"address">>
      [] model = "Group"  -> <<"home", "address", "labels">>
      [] OTHER            -> <<>>

RelationInfo(model, field_name) ==
    CASE model = "Client" /\ field_name = "user" ->
             [related_model |-> "User", to_many |-> FALSE]
      [] model = "Client" /\ field_name = "address" ->
             [related_model |-> "Address", to_many |-> FALSE]
      [] model = "Client" /\ field_name = "tags" ->
             [related_model |-> "Tag", to_many |-> TRUE]
      [] model = "User" /\ field_name = "address" ->
             [related_model |-> "Address", to_many |-> FALSE]
      [] model = "Group" /\ field_name = "home" ->
             [related_model |-> "Address", to_many |-> FALSE]
      [] model = "Group" /\ field_name = "address" ->
             [related_model |-> "Address", to_many |-> FALSE]
      [] model = "Group" /\ field_name = "labels" ->
             [related_model |-> "Tag", to_many |-> TRUE]

InRelations(model, field_name) ==
    \E i \in 1..Len(RelationNames(model)) : RelationNames(model)[i] = field_name

Serializers ==
    {"ClientSerializer", "UserSerializer", "AddressSerializer", "TagSerializer",
     "GroupSerializer"}

\* Meta.model
SerializerModel(ser) ==
    CASE ser = "ClientSerializer"  -> "Client"
      [] ser = "UserSerializer"    -> "User"
      [] ser = "AddressSerializer" -> "Address"
      [] ser = "TagSerializer"     -> "Tag"
      [] ser = "GroupSerializer"   -> "Group"

\* whether the serializer class has NestedCreateUpdateMixin among its bases
HasMixin(ser) == ser \in {"ClientSerializer", "UserSerializer", "GroupSerializer"}

\* serializer._writable_fields, in declaration order (`_pk` aside)
WritableFields(ser) ==
    CASE ser = "ClientSerializer"  -> <<"user", "address", "tags">>
      [] ser = "UserSerializer"    -> <<"address">>
      [] ser = "AddressSerializer" -> <<"zip_code">>
      [] ser = "TagSerializer"     -> <<"name">>
      [] ser = "GroupSerializer"   -> <<"name", "home", "address", "labels">>

\* One declared field: whether it is a (nested) serializer, which, and
\* whether it is a ListSerializer (many=True)
Field(ser, field_name) ==
    CASE ser = "ClientSerializer" /\ field_name = "user" ->
             [is_serializer |-> TRUE, ser |-> "UserSerializer", many |-> FALSE]
      [] ser = "ClientSerializer" /\ field_name = "address" ->
             [is_serializer |-> TRUE, ser |-> "AddressSerializer", many |-> FALSE]
      [] ser = "ClientSerializer" /\ field_name = "tags" ->
             [is_serializer |-> TRUE, ser |-> "TagSerializer", many |-> TRUE]
      [] ser = "UserSerializer" /\ field_name = "address" ->
             [is_serializer |-> TRUE, ser |-> "AddressSerializer", many |-> FALSE]
      [] ser = "GroupSerializer" /\ field_name = "address" ->
             [is_serializer |-> TRUE, ser |-> "AddressSerializer", many |-> FALSE]
      [] OTHER ->
             [is_serializer |-> FALSE, ser |-> "", many |-> FALSE]

----------------------------------------------------------------------------
(* serializer.is_valid(raise_exception=True) on a nested payload: every    *)
(* declared field is required, a nested field is validated with its own    *)
(* serializer, and all the errors are reported in one mapping.             *)

RECURSIVE ValidationErrors(_, _)

FieldErrors(ser, field_name, data) ==
    LET f == Field(ser, field_name) IN
    IF field_name \notin DOMAIN data THEN List(<<"This field is required.">>)
    ELSE IF f.is_serializer /\ ~f.many THEN
         LET e == ValidationErrors(f.ser, data[field_name]) IN
         IF DOMAIN e = {} THEN NoError ELSE Dict(e)
    ELSE IF f.is_serializer /\ f.many THEN
         LET es == [i \in 1..Len(data[field_name]) |->
                        Dict(ValidationErrors(f.ser, data[field_name][i]))] IN
         IF \A i \in 1..Len(es) : DOMAIN es[i].d = {} THEN NoError ELSE List(es)
    ELSE NoError

ValidationErrors(ser, data) ==
    LET fs == {WritableFields(ser)[i] : i \in 1..Len(WritableFields(ser))}
        bad == {f \in fs : FieldErrors(ser, f, data).t # "none"}
    IN [f \in bad |-> FieldErrors(ser, f, data)]

\* serializer.validated_data: the declared fields of the input (`_pk` is a
\* declared write-only field of every nested serializer)
RECURSIVE ValidatedData(_, _)
ValidatedData(ser, data) ==
    LET fs == {WritableFields(ser)[i] : i \in 1..Len(WritableFields(ser))} \cup {"_pk"}
        one(f) == LET fd == Field(ser, f) IN
                  IF fd.is_serializer /\ ~fd.many THEN ValidatedData(fd.ser, data[f])
                  ELSE IF fd.is_serializer /\ fd.many THEN
                       [i \in 1..Len(data[f]) |-> ValidatedData(fd.ser, data[f][i])]
                  ELSE data[f]
    IN [f \in DOMAIN data \cap fs |-> one(f)]

----------------------------------------------------------------------------
(* The store.  A world is the tables and the id counters, with what the    *)
(* model records about the call in progress: the trace of its store calls, *)
(* the path of nested field names to the payload being resolved, what the  *)
(* nested serializers were given, and where and as what the exception that *)
(* ends the call was first raised.  A store                                *)
(* call returns the world after it, the exception it raised (NoExc: none)  *)
(* and its value.                                                          *)
(*                                                                         *)
(* What the store does wrong is an input of a top-level call:              *)
(*   fail_model, fail_kind  create() and save() of that model raise        *)
(*   del_fail, del_before   the delete() of the del_fail-th tracked object *)
(*                          raises, the tracked objects in del_before      *)
(*                          being iterated before it (a set has no order)  *)

NoFailure == [fail_model |-> "", fail_kind |-> "", del_fail |-> 0, del_before |-> {}]

Result(w, exc, val) == [w |-> w, exc |-> exc, val |-> val]

Logged(w, op) == [w EXCEPT !.trace = Append(@, [op EXCEPT !.path = w.path])]

NoOrigin == [path |-> <<>>, exc |-> NoExc]

\* raise exc, here
Raise(w, exc) == [w EXCEPT !.origin = [path |-> w.path, exc |-> exc]]

\* the world while the payload of field_name is resolved, and after
Under(w, field_name) == [w EXCEPT !.path = Append(@, field_name)]
Back(w, before) == [w EXCEPT !.path = before.path]

\* a nested serializer is built, bound to instance (None: unbound), on data,
\* after `at` store calls of the call
Forwarded(w, ser, instance, data) ==
    [w EXCEPT !.forwarded = Append(@, [ser |-> ser, instance |-> instance,
                                       data |-> data, path |-> w.path,
                                       at |-> Len(w.trace)])]

Handle(model, id) == [model |-> model, id |-> id]

\* Model._default_manager.create() with the keyword arguments attrs
ManagerCreate(w, env, model, attrs) ==
    IF env.fail_model = model
    THEN Result(Raise(Logged(w, Op("create_failed", model, None)),
                      OtherError(env.fail_kind, "create")),
                OtherError(env.fail_kind, "create"), None)
    ELSE LET id == w.seq[model] + 1
             obj == Updated(ModelDefaults(model), attrs)
         IN Result([Logged(w, Op("create", model, id)) EXCEPT
                        !.seq[model] = id,
                        !.db[model] = (id :> obj) @@ @],
                   NoExc, id)

\* setattr(instance, name, value) for every item of attrs, then instance.save()
SetAttrsAndSave(w, env, model, id, attrs) ==
    IF env.fail_model = model
    THEN Result(Raise(Logged(w, Op("save_failed", model, id)),
                      OtherError(env.fail_kind, "save")),
                OtherError(env.fail_kind, "save"), None)
    ELSE Result([Logged(w, Op("save", model, id)) EXCEPT
                     !.db[model][id] = Updated(@, attrs)],
                NoExc, id)

\* related_model._default_manager.get(pk=_pk): the id, or None for DoesNotExist
ManagerGet(w, model, pk) ==
    Result(Logged(w, Op("get", model, pk)), NoExc,
           IF pk \in DOMAIN w.db[model] THEN pk ELSE None)

\* instance.delete()
Delete(w, h) ==
    [Logged(w, Op("delete", h.model, h.id)) EXCEPT
         !.db[h.model] = [i \in DOMAIN @ \ {h.id} |-> @[i]]]

\* getattr(instance, field_name).set(value): the collection becomes the
\* objects of the sequence
SetCollection(w, model, id, field_name, ids) ==
    [Logged(w, SetOp(model, id, field_name, ids)) EXCEPT
         !.db[model][id][field_name] = {ids[i] : i \in 1..Len(ids)}]

----------------------------------------------------------------------------
(* NestedCreateUpdateMixin *)

Raised(r) == r.exc.cls # "none"

\* MergeDictArgs that stops at the first mapping among the arguments
MergeDictArgsFirst(args, n) ==
    LET ds == {i \in 1..n : args[i].t = "dict"} IN
    IF ds = {} THEN EmptyMap
    ELSE args[CHOOSE i \in ds : \A j \in ds : i <= j].d

RECURSIVE MergeDictArgs(_, _)
\* {key: value for arg in args if isinstance(arg, dict) for key, value in arg.items()}
\* over the first n arguments: a later argument's keys replace an earlier one's
MergeDictArgs(args, n) ==
    IF n = 0 THEN EmptyMap
    ELSE IF args[n].t = "dict"
         THEN Updated(MergeDictArgs(args, n - 1), args[n].d)
         ELSE MergeDictArgs(args, n - 1)

\* GetNestedValidationError that gives the exception back as it is
GetNestedValidationErrorBare(nested_field_name, exc) == exc

\* _get_nested_validation_error(nested_field_name, exc)
GetNestedValidationError(nested_field_name, exc) ==
    IF ~IsValidationError(exc)
    THEN OtherError("TypeError", "exc must be of type ValidationError")
    ELSE SameClass(exc, Dict(nested_field_name :> Dict(MergeDictArgs(exc.args, Len(exc.args)))))

\* "No such <Model> object with primary key <pk> exists."
NoSuchObject(model, pk) ==
    "No such " \o model \o " object with primary key " \o ToString(pk) \o " exists."

\* the TypeError create() raises in place of the store's TypeError
CreateTypeError(model, ser) ==
    OtherError("TypeError",
               "Got a TypeError when calling " \o model \o ".objects.create. "
               \o "You may need to make the field read-only, or override the "
               \o ser \o ".create method to handle this correctly.")

RECURSIVE SerializerSave(_, _, _, _, _)
RECURSIVE ResolveFields(_, _, _, _, _)
RECURSIVE ResolveElements(_, _, _, _, _, _, _)

\* what _handle_single_instance_data returns or raises: the world after it,
\* the exception, created and the instance
Single(w, exc, created, instance) ==
    [w |-> w, exc |-> exc, created |-> created, instance |-> instance]

SingleRaise(w, exc, created) == Single(Raise(w, exc), exc, created, None)

SingleSaved(r, created) == Single(r.w, r.exc, created, r.val)

\* serializer = cls(instance, data=data); serializer.is_valid(raise_exception=True);
\* instance = serializer.save()
ValidateAndSave(w, env, ser, instance, data, created) ==
    IF DOMAIN ValidationErrors(ser, data) # {}
    THEN SingleRaise(Forwarded(w, ser, instance, data),
                     ValidationError(Dict(ValidationErrors(ser, data))), created)
    ELSE SingleSaved(SerializerSave(Forwarded(w, ser, instance, data), env, ser,
                                    instance, ValidatedData(ser, data)),
                     created)

\* UpdateSingleInstance with a serializer that is given no instance
UpdateSingleInstanceUnbound(env, related_model, field_obj, data, _pk, g) ==
    ValidateAndSave(g.w, env, field_obj.ser, None, data, FALSE)

\* UpdateSingleInstance that creates the object a `_pk` does not find
UpdateSingleInstanceOrCreate(env, related_model, field_obj, data, _pk, g) ==
    IF g.val = None
    THEN ValidateAndSave(g.w, env, field_obj.ser, None, data, TRUE)
    ELSE ValidateAndSave(g.w, env, field_obj.ser, g.val, data, FALSE)

\* the else branch of _handle_single_instance_data: `_pk` was popped, g is
\* what related_model._default_manager.get(pk=_pk) gave
UpdateSingleInstance(env, related_model, field_obj, data, _pk, g) ==
    IF g.val = None
    THEN SingleRaise(g.w,
                     ValidationError(Dict(NON_FIELD_ERRORS_KEY :>
                         List(<<NoSuchObject(related_model, _pk)>>))),
                     FALSE)
    ELSE IF field_obj.many
    THEN \* field_obj.__class__ is ListSerializer, built here without a child
         SingleRaise(g.w,
                     OtherError("AssertionError", "child is a required argument."),
                     FALSE)
    ELSE ValidateAndSave(g.w, env, field_obj.ser, g.val, data, FALSE)

\* HandleSingleInstanceData with created = False from the start
HandleSingleInstanceDataUntracked(w, env, related_model, field_obj, field_data) ==
    IF "_pk" \notin DOMAIN field_data
    THEN ValidateAndSave(w, env, field_obj.ser, None, field_data, FALSE)
    ELSE UpdateSingleInstance(env, related_model, field_obj,
                              Without(field_data, "_pk"), field_data["_pk"],
                              ManagerGet(w, related_model, field_data["_pk"]))

\* HandleSingleInstanceData that reads `_pk` and leaves it in field_data
HandleSingleInstanceDataKeepsPk(w, env, related_model, field_obj, field_data) ==
    IF "_pk" \notin DOMAIN field_data
    THEN ValidateAndSave(w, env, field_obj.ser, None, field_data, TRUE)
    ELSE UpdateSingleInstance(env, related_model, field_obj,
                              field_data, field_data["_pk"],
                              ManagerGet(w, related_model, field_data["_pk"]))

\* _handle_single_instance_data(related_model, field_obj, field_data)
HandleSingleInstanceData(w, env, related_model, field_obj, field_data) ==
    IF "_pk" \notin DOMAIN field_data
    THEN \* field_obj.child of a ListSerializer, or field_obj: the same class
         ValidateAndSave(w, env, field_obj.ser, None, field_data, TRUE)
    ELSE UpdateSingleInstance(env, related_model, field_obj,
                              Without(field_data, "_pk"), field_data["_pk"],
                              ManagerGet(w, related_model, field_data["_pk"]))

\* except (ValidationError, django_ValidationError) as e:
\*     raise self._get_nested_validation_error(field_name, e)
\* (any other exception passes as it is)
Failed(st, r, field_name) ==
    [st EXCEPT !.w = Back(r.w, st.w),
               !.exc = IF IsValidationError(r.exc)
                       THEN GetNestedValidationError(field_name, r.exc)
                       ELSE r.exc]

\* Tracked without the test of created
TrackedAlways(created_instances, r, related_model) ==
    Append(created_instances, Handle(related_model, r.instance))

\* if created: created_instances.add(instance)
Tracked(created_instances, r, related_model) ==
    IF r.created THEN Append(created_instances, Handle(related_model, r.instance))
    ELSE created_instances

\* AfterElement that puts the instance in front of the instances it has
AfterElementPrepending(st, r, field_name, related_model) ==
    IF Raised(r) THEN Failed(st, r, field_name)
    ELSE [st EXCEPT !.w = Back(r.w, st.w),
                    !.created = Tracked(@, r, related_model),
                    !.many = (field_name :> (<<r.instance>> \o
                                             (IF field_name \in DOMAIN @
                                              THEN @[field_name] ELSE <<>>))) @@ @]

\* one element of a to-many payload, resolved to r
AfterElement(st, r, field_name, related_model) ==
    IF Raised(r) THEN Failed(st, r, field_name)
    ELSE [st EXCEPT !.w = Back(r.w, st.w),
                    !.created = Tracked(@, r, related_model),
                    !.many = (field_name :> Append(IF field_name \in DOMAIN @
                                                   THEN @[field_name] ELSE <<>>,
                                                   r.instance)) @@ @]

RECURSIVE ResolveElementsAll(_, _, _, _, _, _, _)
\* ResolveElements that goes on with the next element after one has failed
ResolveElementsAll(st, env, related_model, field, field_name, field_data, i) ==
    IF i > Len(field_data) THEN st
    ELSE ResolveElementsAll(
             AfterElement(st,
                          HandleSingleInstanceData(Under(st.w, field_name), env,
                                                   related_model, field,
                                                   field_data[i]),
                          field_name, related_model),
             env, related_model, field, field_name, field_data, i + 1)

\* the loop over the elements of a to-many payload, from element i on
ResolveElements(st, env, related_model, field, field_name, field_data, i) ==
    IF Raised(st) \/ i > Len(field_data) THEN st
    ELSE ResolveElements(
             AfterElement(st,
                          HandleSingleInstanceData(Under(st.w, field_name), env,
                                                   related_model, field,
                                                   field_data[i]),
                          field_name, related_model),
             env, related_model, field, field_name, field_data, i + 1)

\* AfterToOne that tracks the instance whether it was created or not
AfterToOneTrackingAll(st, r, field_name, related_model) ==
    IF Raised(r) THEN Failed(st, r, field_name)
    ELSE [st EXCEPT !.w = Back(r.w, st.w),
                    !.created = Append(@, Handle(related_model, r.instance)),
                    !.one = (field_name :> r.instance) @@ @]

\* a to-one payload, resolved to r
AfterToOne(st, r, field_name, related_model) ==
    IF Raised(r) THEN Failed(st, r, field_name)
    ELSE [st EXCEPT !.w = Back(r.w, st.w),
                    !.created = Tracked(@, r, related_model),
                    !.one = (field_name :> r.instance) @@ @]

\* ResolveRelation that keeps only what nested serializers resolved
ResolveRelationNestedOnly(st, env, relation_info, field, field_name, field_data) ==
    IF ~field.is_serializer THEN st
    ELSE IF relation_info.to_many
    THEN ResolveElements(st, env, relation_info.related_model, field,
                         field_name, field_data, 1)
    ELSE AfterToOne(st,
                    HandleSingleInstanceData(Under(st.w, field_name), env,
                                             relation_info.related_model,
                                             field, field_data),
                    field_name, relation_info.related_model)

\* one relational field of validated_data, already popped from st.data
ResolveRelation(st, env, relation_info, field, field_name, field_data) ==
    IF relation_info.to_many
    THEN IF field.is_serializer
         THEN ResolveElements(st, env, relation_info.related_model, field,
                              field_name, field_data, 1)
         ELSE [st EXCEPT !.many = (field_name :> field_data) @@ @]
    ELSE IF field.is_serializer
         THEN AfterToOne(st,
                         HandleSingleInstanceData(Under(st.w, field_name), env,
                                                  relation_info.related_model,
                                                  field, field_data),
                         field_name, relation_info.related_model)
         ELSE [st EXCEPT !.one = (field_name :> field_data) @@ @]

\* the body of the loop over self._writable_fields
ResolveField(st, env, ser, model, field_name) ==
    IF field_name \in DOMAIN st.data /\ InRelations(model, field_name)
    THEN ResolveRelation([st EXCEPT !.data = Without(@, field_name)], env,
                         RelationInfo(model, field_name), Field(ser, field_name),
                         field_name, st.data[field_name])
    ELSE st

\* the loop over self._writable_fields, from field i on
ResolveFields(st, env, ser, model, i) ==
    IF Raised(st) \/ i > Len(WritableFields(ser)) THEN st
    ELSE ResolveFields(ResolveField(st, env, ser, model, WritableFields(ser)[i]),
                       env, ser, model, i + 1)

RECURSIVE DeleteAll(_, _, _, _)
\* instance.delete() for the tracked instances at the positions of `which`
DeleteAll(w, created, which, i) ==
    IF i > Len(created) THEN w
    ELSE DeleteAll(IF i \in which THEN Delete(w, created[i]) ELSE w,
                   created, which, i + 1)

\* Compensate without the deletions
CompensateNothing(st, env) == st

\* Compensate that goes on with the original exception when a delete raises
CompensateSwallowing(st, env) ==
    IF env.del_fail \in 1..Len(st.created)
    THEN [st EXCEPT
            !.w = Logged(DeleteAll(st.w, st.created,
                                   (env.del_before \cap 1..Len(st.created))
                                       \ {env.del_fail}, 1),
                         Op("delete_failed", st.created[env.del_fail].model,
                            st.created[env.del_fail].id))]
    ELSE [st EXCEPT !.w = DeleteAll(st.w, st.created, 1..Len(st.created), 1)]

\* Compensate that deletes the other instances when one delete has raised
CompensateContinuing(st, env) ==
    IF env.del_fail \in 1..Len(st.created)
    THEN [st EXCEPT
            !.w = Raise(DeleteAll(
                            Logged(DeleteAll(st.w, st.created,
                                             (env.del_before \cap 1..Len(st.created))
                                                 \ {env.del_fail}, 1),
                                   Op("delete_failed", st.created[env.del_fail].model,
                                      st.created[env.del_fail].id)),
                            st.created,
                            (1..Len(st.created)) \ (env.del_before \cup {env.del_fail}),
                            1),
                        OtherError("DatabaseError", "delete")),
            !.exc = OtherError("DatabaseError", "delete")]
    ELSE [st EXCEPT !.w = DeleteAll(st.w, st.created, 1..Len(st.created), 1)]

\* for instance in created_instances: instance.delete()
\* raise
Compensate(st, env) ==
    IF env.del_fail \in 1..Len(st.created)
    THEN [st EXCEPT
            !.w = Raise(Logged(DeleteAll(st.w, st.created,
                                         (env.del_before \cap 1..Len(st.created))
                                             \ {env.del_fail}, 1),
                               Op("delete_failed", st.created[env.del_fail].model,
                                  st.created[env.del_fail].id)),
                        OtherError("DatabaseError", "delete")),
            !.exc = OtherError("DatabaseError", "delete")]
    ELSE [st EXCEPT !.w = DeleteAll(st.w, st.created, 1..Len(st.created), 1)]

\* Guarded that runs the deletions whether the loop raised or not
GuardedAlways(st, env) == Compensate(st, env)

\* try: ... except Exception: ...
Guarded(st, env) == IF Raised(st) THEN Compensate(st, env) ELSE st

\* _get_related_field_data(info, validated_data): the to-one and to-many
\* mappings, and validated_data without the relational fields it popped
GetRelatedFieldData(w, env, ser, model, validated_data) ==
    Guarded(ResolveFields([w |-> w, exc |-> NoExc, one |-> EmptyMap,
                           many |-> EmptyMap, created |-> <<>>,
                           data |-> validated_data],
                          env, ser, model, 1),
            env)

RECURSIVE SetCollections(_, _, _, _, _)
\* for field_name, value in related_to_many_fields_data.items(): field.set(value)
SetCollections(w, model, id, many, names) ==
    IF names = <<>> THEN w
    ELSE SetCollections(IF Head(names) \in DOMAIN many
                        THEN SetCollection(w, model, id, Head(names), many[Head(names)])
                        ELSE w,
                        model, id, many, Tail(names))

\* the end of create() and update(): c is what the parent's create() or
\* save() gave, many the to-many mapping
SetRelated(c, model, many) ==
    IF Raised(c) THEN c
    ELSE Result(SetCollections(c.w, model, c.val, many, RelationNames(model)),
                NoExc, c.val)

\* CatchTypeError without the except clause
CatchTypeErrorNever(c, model, ser) == c

\* except TypeError: raise TypeError(msg)
CatchTypeError(c, model, ser) ==
    IF c.exc.cls = "TypeError" THEN Result(c.w, CreateTypeError(model, ser), None)
    ELSE c

\* create() after _get_related_field_data gave r
CreateParent(env, ser, ModelClass, r) ==
    IF Raised(r) THEN Result(r.w, r.exc, None)
    ELSE SetRelated(CatchTypeError(ManagerCreate(r.w, env, ModelClass,
                                                 Updated(r.data, r.one)),
                                   ModelClass, ser),
                    ModelClass, r.many)

\* create(validated_data)
MixinCreate(w, env, ser, validated_data) ==
    CreateParent(env, ser, SerializerModel(ser),
                 GetRelatedFieldData(w, env, ser, SerializerModel(ser),
                                     validated_data))

\* CheckRelation without the comparison of the two ids
CheckRelationAnyPk(related_obj, related_model, field_name, field_data) ==
    IF related_obj # None /\ "_pk" \notin DOMAIN field_data
    THEN ValidationError(Dict(field_name :> List(<<"Related object already exists.">>)))
    ELSE NoExc

\* CheckRelation without the branch of the missing `_pk`
CheckRelationPkOptional(related_obj, related_model, field_name, field_data) ==
    IF related_obj # None /\ "_pk" \in DOMAIN field_data
       /\ related_obj # field_data["_pk"]
    THEN ValidationError(Dict(field_name :>
             List(<<NoSuchObject(related_model, field_data["_pk"])>>)))
    ELSE NoExc

\* CheckRelation without the test of related_obj
CheckRelationEmptySlot(related_obj, related_model, field_name, field_data) ==
    IF "_pk" \notin DOMAIN field_data
    THEN ValidationError(Dict(field_name :> List(<<"Related object already exists.">>)))
    ELSE IF related_obj # field_data["_pk"]
    THEN ValidationError(Dict(field_name :>
             List(<<NoSuchObject(related_model, field_data["_pk"])>>)))
    ELSE NoExc

\* the check of update() on one to-one field of validated_data:
\* related_obj is getattr(instance, field_name), related_model its class;
\* the validation error it raises, or NoExc
CheckRelation(related_obj, related_model, field_name, field_data) ==
    IF related_obj = None THEN NoExc
    ELSE IF "_pk" \notin DOMAIN field_data
    THEN ValidationError(Dict(field_name :> List(<<"Related object already exists.">>)))
    ELSE IF related_obj # field_data["_pk"]
    THEN ValidationError(Dict(field_name :>
             List(<<NoSuchObject(related_model, field_data["_pk"])>>)))
    ELSE NoExc

\* one relation of the loop of update(): c is what the check of the field
\* gave, next what the rest of the loop gives
FirstRaised(c, next) == IF c.cls # "none" THEN c ELSE next

\* isinstance(field_data, Mapping): the validated value of a nested
\* serializer is a mapping, that of any other relational field is not
IsMapping(model, field_name) ==
    \E ser \in Serializers : /\ SerializerModel(ser) = model
                             /\ HasMixin(ser)
                             /\ Field(ser, field_name).is_serializer

RECURSIVE CheckRelations(_, _, _, _, _)
\* the loop of update() over info.relations.items(), from relation i on:
\* the validation error it raises, or NoExc
CheckRelations(w, model, instance, validated_data, i) ==
    IF i > Len(RelationNames(model)) THEN NoExc
    ELSE IF RelationInfo(model, RelationNames(model)[i]).to_many
            \/ RelationNames(model)[i] \notin DOMAIN validated_data
            \/ ~IsMapping(model, RelationNames(model)[i])
    THEN CheckRelations(w, model, instance, validated_data, i + 1)
    ELSE FirstRaised(
             CheckRelation(w.db[model][instance][RelationNames(model)[i]],
                           RelationInfo(model, RelationNames(model)[i]).related_model,
                           RelationNames(model)[i],
                           validated_data[RelationNames(model)[i]]),
             CheckRelations(w, model, instance, validated_data, i + 1))

\* SaveParent that sets the to-many fields before it saves the instance
SaveParentSetFirst(env, model, instance, r) ==
    IF Raised(r) THEN Result(r.w, r.exc, None)
    ELSE SetAttrsAndSave(SetCollections(r.w, model, instance, r.many,
                                        RelationNames(model)),
                         env, model, instance, Updated(r.data, r.one))

\* update() after _get_related_field_data gave r
SaveParent(env, model, instance, r) ==
    IF Raised(r) THEN Result(r.w, r.exc, None)
    ELSE SetRelated(SetAttrsAndSave(r.w, env, model, instance,
                                    Updated(r.data, r.one)),
                    model, r.many)

\* update(instance, validated_data)
MixinUpdate(w, env, ser, instance, validated_data) ==
    IF CheckRelations(w, SerializerModel(ser), instance, validated_data, 1).cls
           # "none"
    THEN Result(Raise(w, CheckRelations(w, SerializerModel(ser), instance,
                                        validated_data, 1)),
                CheckRelations(w, SerializerModel(ser), instance,
                               validated_data, 1), None)
    ELSE SaveParent(env, SerializerModel(ser), instance,
                    GetRelatedFieldData(w, env, ser, SerializerModel(ser),
                                        validated_data))

\* ModelSerializer.create(validated_data) of a serializer without the mixin
ModelSerializerCreate(w, env, ser, validated_data) ==
    CatchTypeError(ManagerCreate(w, env, SerializerModel(ser), validated_data),
                   SerializerModel(ser), ser)

\* serializer.save(): create() without an instance, update() with one
SerializerSave(w, env, ser, instance, validated_data) ==
    IF instance = None
    THEN IF HasMixin(ser) THEN MixinCreate(w, env, ser, validated_data)
         ELSE ModelSerializerCreate(w, env, ser, validated_data)
    ELSE IF HasMixin(ser) THEN MixinUpdate(w, env, ser, instance, validated_data)
         ELSE SetAttrsAndSave(w, env, SerializerModel(ser), instance, validated_data)

----------------------------------------------------------------------------
(* The payloads of the top-level calls *)

PkParts == {EmptyMap} \cup {("_pk" :> k) : k \in 1..MaxPk}

\* a payload of a serializer with one scalar field: with or without `_pk`,
\* with or without the field
LeafPayloads(field_name) ==
    {pk @@ body : pk \in PkParts, body \in {EmptyMap, (field_name :> "n")}}

AddressPayloads == LeafPayloads("zip_code")

\* tags come with one of two names, to tell the elements of a list apart
TagPayloads == LeafPayloads("name") \cup {pk @@ ("name" :> "m") : pk \in PkParts}

UserPayloads ==
    {pk @@ a : pk \in PkParts,
               a \in {EmptyMap} \cup {("address" :> x) : x \in AddressPayloads}}

TagLists == UNION {[1..n -> TagPayloads] : n \in 0..MaxElems}

\* the nested payloads of a client payload
Nodes(p) ==
    (IF "user" \in DOMAIN p
     THEN 1 + (IF "address" \in DOMAIN p["user"] THEN 1 ELSE 0) ELSE 0)
    + (IF "address" \in DOMAIN p THEN 1 ELSE 0)
    + (IF "tags" \in DOMAIN p THEN Len(p["tags"]) ELSE 0)

ClientPayloads ==
    {p \in {u @@ a @@ t :
               u \in {EmptyMap} \cup {("user" :> x) : x \in UserPayloads},
               a \in {EmptyMap} \cup {("address" :> x) : x \in AddressPayloads},
               t \in {EmptyMap} \cup {("tags" :> x) : x \in TagLists}} :
        Nodes(p) <= MaxNodes}

\* the kinds of exception a failing create() or save() of the store raises
FailKinds == {"TypeError", "IntegrityError"}

\* the store failures that can show in a call whose failure-free run made
\* the store calls of `trace`
StoreFailures(trace) ==
    {NoFailure} \cup
    {[NoFailure EXCEPT !.fail_model = m, !.fail_kind = k] :
        m \in {trace[i].model : i \in {j \in 1..Len(trace) :
                                         trace[j].op \in {"create", "save"}}},
        k \in FailKinds}

\* the delete failures that can show in a call that, without them, deleted
\* the tracked objects of `trace`
DeleteFailures(env, trace) ==
    LET n == Cardinality({i \in 1..Len(trace) : trace[i].op = "delete"}) IN
    {env} \cup {[env EXCEPT !.del_fail = i, !.del_before = b] :
                   i \in 1..n, b \in SUBSET (1..n)}

----------------------------------------------------------------------------
(* The state machine: one call, a create or an update on the client        *)
(* serializer or a direct _handle_single_instance_data, run to its return  *)
(* or its exception, against a store that holds a client, a user, a tag    *)
(* and one or two addresses.                                               *)

Idle == [phase |-> "idle", ser |-> "", op |-> "", instance |-> None, field |-> "",
         payload |-> EmptyMap, db |-> EmptyMap, exc |-> NoExc, val |-> None,
         created |-> FALSE, trace |-> <<>>, origin |-> NoOrigin,
         forwarded |-> <<>>]

\* the addresses, and the user and the address of client 1, before the call
InitialStores ==
    {[m \in Models |->
         CASE m = "Client"  -> (1 :> [user |-> u, address |-> a, tags |-> {1}])
           [] m = "User"    -> (1 :> [address |-> 1])
           [] m = "Address" -> [i \in 1..n |-> [zip_code |-> "o"]]
           [] m = "Tag"     -> (1 :> [name |-> "o"])
           [] m = "Group"   -> (1 :> [name |-> "o", home |-> 1, address |-> None,
                                      labels |-> {}])] :
       n \in 1..2, u \in {None, 1}, a \in {None, 2}}

\* no class statement run and no method of a class called
NoOut == [op |-> "idle"]

\* no caller runs beside another
NoCalls == <<>>

Init ==
    /\ db \in {s \in InitialStores : s["Client"][1].address \in {None} \cup DOMAIN s["Address"]}
    /\ seq = [m \in Models |-> Cardinality(DOMAIN db[m])]
    /\ last = Idle
    /\ classes = EmptyMap /\ out = NoOut
    /\ errors = EmptyMap /\ appended = <<>>
    /\ calls = NoCalls

World == [db |-> db, seq |-> seq, trace |-> <<>>, path |-> <<>>, origin |-> NoOrigin,
          forwarded |-> <<>>]

\* the call returns (or raises): the store is as the call left it, and last
\* holds the call, the store before it and what the caller gets
Returns(ser, op, instance, field_name, payload, w, exc, val, created) ==
    /\ \A m \in Models : w.seq[m] <= MaxId
    /\ db' = w.db
    /\ seq' = w.seq
    /\ last' = [phase |-> "returned", ser |-> ser, op |-> op, instance |-> instance,
                field |-> field_name, payload |-> payload, db |-> db,
                exc |-> exc, val |-> val, created |-> created,
                trace |-> w.trace, origin |-> w.origin,
                forwarded |-> w.forwarded]
    /\ UNCHANGED <<classes, out, errors, appended, calls>>

Returned(op, instance, payload, r) ==
    Returns("ClientSerializer", op, instance, "", payload, r.w, r.exc, r.val, FALSE)

\* ClientSerializer().create(payload)
Create ==
    /\ last.phase = "idle"
    /\ \E payload \in ClientPayloads :
         \E f \in StoreFailures(
                    MixinCreate(World, NoFailure, "ClientSerializer", payload).w.trace) :
           \E env \in DeleteFailures(
                        f, MixinCreate(World, f, "ClientSerializer", payload).w.trace) :
             Returned("create", None, payload,
                      MixinCreate(World, env, "ClientSerializer", payload))

\* ClientSerializer().update(instance, payload)
Update ==
    /\ last.phase = "idle"
    /\ \E instance \in DOMAIN db["Client"], payload \in ClientPayloads :
         \E f \in StoreFailures(
                    MixinUpdate(World, NoFailure, "ClientSerializer", instance,
                                payload).w.trace) :
           \E env \in DeleteFailures(
                        f, MixinUpdate(World, f, "ClientSerializer", instance,
                                       payload).w.trace) :
             Returned("update", instance, payload,
                      MixinUpdate(World, env, "ClientSerializer", instance, payload))

\* the payloads of one nested field of the client serializer
FieldPayloads(field_name) ==
    CASE field_name = "user"    -> UserPayloads
      [] field_name = "address" -> AddressPayloads
      [] field_name = "tags"    -> TagPayloads

ResolvedSingle(field_name, payload, r) ==
    Returns("ClientSerializer", "resolve", None, field_name, payload, r.w, r.exc,
            r.instance, r.created)

\* NestedCreateUpdateMixin._handle_single_instance_data(related_model, field_obj,
\* field_data), for a nested field of the client serializer
HandleSingle ==
    /\ last.phase = "idle"
    /\ \E field_name \in {"user", "address", "tags"} :
         \E payload \in FieldPayloads(field_name) :
           \E env \in StoreFailures(
                        HandleSingleInstanceData(
                            World, NoFailure,
                            RelationInfo("Client", field_name).related_model,
                            Field("ClientSerializer", field_name), payload).w.trace) :
             ResolvedSingle(field_name, payload,
                            HandleSingleInstanceData(
                                World, env,
                                RelationInfo("Client", field_name).related_model,
                                Field("ClientSerializer", field_name), payload))

\* the payloads of the group serializer: a name, the primary key of an
\* address of the store, a nested address and a list of primary keys of tags
GroupPayloads(store) ==
    {n @@ h @@ a @@ l :
        n \in {EmptyMap, ("name" :> "n")},
        h \in {EmptyMap} \cup {("home" :> k) : k \in DOMAIN store["Address"]},
        a \in {EmptyMap} \cup {("address" :> x) : x \in AddressPayloads},
        l \in {EmptyMap} \cup {("labels" :> x) :
                                  x \in {<<>>} \cup {<<k>> : k \in DOMAIN store["Tag"]}}}

GroupReturned(op, instance, payload, r) ==
    Returns("GroupSerializer", op, instance, "", payload, r.w, r.exc, r.val, FALSE)

\* GroupSerializer().create(payload)
CreateGroup ==
    /\ last.phase = "idle"
    /\ \E payload \in GroupPayloads(db) :
         \E env \in StoreFailures(
                      MixinCreate(World, NoFailure, "GroupSerializer", payload).w.trace) :
           GroupReturned("create", None, payload,
                         MixinCreate(World, env, "GroupSerializer", payload))

\* GroupSerializer().update(instance, payload)
UpdateGroup ==
    /\ last.phase = "idle"
    /\ \E instance \in DOMAIN db["Group"], payload \in GroupPayloads(db) :
         \E env \in StoreFailures(
                      MixinUpdate(World, NoFailure, "GroupSerializer", instance,
                                  payload).w.trace) :
           GroupReturned("update", instance, payload,
                         MixinUpdate(World, env, "GroupSerializer", instance, payload))

\* the positional arguments an exception may carry: error mappings (two of
\* them with the same key), a list of messages and a string
ExcArgs ==
    {Dict("zip_code" :> List(<<"x">>)), Dict("zip_code" :> List(<<"y">>)),
     Dict("state" :> List(<<"z">>)), List(<<"m">>), Str("code")}

\* the exceptions _get_nested_validation_error may be given
Excs ==
    {[cls |-> c, args |-> a] :
        c \in {"ValidationError", "django_ValidationError", "IntegrityError"},
        a \in UNION {[1..n -> ExcArgs] : n \in 1..MaxArgs}}

WrapResult(r) == IF IsValidationError(r) THEN Result(World, NoExc, r)
                 ELSE Result(World, r, None)

\* NestedCreateUpdateMixin._get_nested_validation_error(nested_field_name, exc)
NestedValidationError ==
    /\ last.phase = "idle"
    /\ \E nested_field_name \in {"user", "address"}, exc \in Excs :
         LET r == WrapResult(GetNestedValidationError(nested_field_name, exc)) IN
         Returns("", "wrap", None, nested_field_name, exc, r.w, r.exc, r.val, FALSE)

Next ==
    Create \/ Update \/ HandleSingle \/ CreateGroup \/ UpdateGroup
    \/ NestedValidationError

Spec == Init /\ [][Next]_vars

----------------------------------------------------------------------------
(* drf_ext/utils.py: an error dict, from key to list of messages, filled   *)
(* by a sequence of update_error_dict calls.                               *)

\* update_error_dict that puts the message in place of the list
UpdateErrorDictReplacing(errs, field_name, message) ==
    (field_name :> <<message>>) @@ errs

\* errors.setdefault(field_name, []).append(message)
UpdateErrorDict(errs, field_name, message) ==
    IF field_name \in DOMAIN errs
    THEN [errs EXCEPT ![field_name] = Append(@, message)]
    ELSE (field_name :> <<message>>) @@ errs

\* a store without objects
EmptyStore == [m \in Models |-> <<>>]

ErrorDictInit ==
    /\ errors = EmptyMap /\ appended = <<>>
    /\ calls = NoCalls
    /\ db = EmptyStore /\ seq = [m \in Models |-> 0] /\ last = Idle
    /\ classes = EmptyMap /\ out = NoOut

\* update_error_dict(errors, field_name, message)
UpdateErrorDictCall ==
    /\ Len(appended) < MaxCalls
    /\ \E field_name \in {"zip_code", NON_FIELD_ERRORS_KEY},
          message \in {"This field is required.", "At least one is required."} :
         /\ errors' = UpdateErrorDict(errors, field_name, message)
         /\ appended' = Append(appended, [field_name |-> field_name,
                                          message |-> message])
    /\ UNCHANGED <<db, seq, last, classes, out, calls>>

ErrorDictNext == UpdateErrorDictCall

ErrorDictSpec == ErrorDictInit /\ [][ErrorDictNext]_vars

----------------------------------------------------------------------------
(* drf_ext/metaclasses.py: class statements.  A class body is its Meta     *)
(* (or none) and its attributes in the order of the body; classes holds    *)
(* the classes the statements made, and a serializer instance in a body    *)
(* names its class, so that what a metaclass does to serializer.__class__  *)
(* shows on every instance of that class.                                  *)

\* rest_framework.serializers.ALL_FIELDS, and a tuple of names, as Meta.fields
ALL_FIELDS == [all |-> TRUE, names |-> <<>>]
FieldNames(names) == [all |-> FALSE, names |-> names]

\* class Meta with nothing in it but the model
BareMeta ==
    [has_fields |-> FALSE, fields |-> FieldNames(<<>>),
     has_extra_kwargs |-> FALSE, extra_kwargs |-> EmptyMap,
     has_non_required_fields |-> FALSE, non_required_fields |-> <<>>,
     common_field_params |-> <<>>,
     required_fields_on_create |-> <<>>, required_fields_on_update |-> <<>>,
     required_fields_on_create_any |-> <<>>, required_fields_on_update_any |-> <<>>]

\* class Meta: fields = ...
MetaWith(fields) == [BareMeta EXCEPT !.has_fields = TRUE, !.fields = fields]

\* the attrs of a class statement
Attrs(has_meta, Meta, body) == [has_meta |-> has_meta, Meta |-> Meta, body |-> body]

\* A field object: a plain field ("field"), an instance of a model
\* serializer class ("model_serializer", cls its class), a ListSerializer
\* made by many=True ("list_serializer", cls the class of its child).
\* attrs are the attributes set on the object, kwargs its _kwargs, wrapped
\* whether the instance has its own get_default_field_names.
FieldObject(kind, cls, kwargs) ==
    [kind |-> kind, cls |-> cls, attrs |-> kwargs, kwargs |-> kwargs,
     wrapped |-> FALSE]

\* name = value in a class body
Attr(name, value) == [name |-> name, value |-> value]

\* A class: the metaclass that made it, whether NestedCreateUpdateMixin is
\* among its bases, its Meta, its _declared_fields (the names in the order
\* of the dict, and the field objects) and the required_fields_* lists its
\* is_valid closes over.
Class(metaclass, mixin, Meta, names, fields, required) ==
    [metaclass |-> metaclass, mixin |-> mixin, Meta |-> Meta,
     declared_names |-> names, declared |-> fields, required |-> required]

NoRequired ==
    [on_create |-> <<>>, on_update |-> <<>>, on_create_any |-> <<>>,
     on_update_any |-> <<>>]

ValueError(text) == OtherError("ValueError", text)

\* _get_meta_fields that takes a missing Meta or a missing fields for "__all__"
GetMetaFieldsDefaulting(cls_name, cls_attrs) ==
    IF cls_attrs.has_meta /\ cls_attrs.Meta.has_fields
    THEN [exc |-> NoExc, val |-> cls_attrs.Meta.fields]
    ELSE [exc |-> NoExc, val |-> ALL_FIELDS]

\* _get_meta_fields(cls_name, cls_attrs): what it raises, or what it returns
GetMetaFields(cls_name, cls_attrs) ==
    IF ~cls_attrs.has_meta
    THEN [exc |-> ValueError("No Meta class defined on " \o cls_name \o "."),
          val |-> ALL_FIELDS]
    ELSE IF ~cls_attrs.Meta.has_fields
    THEN [exc |-> ValueError("No fields defined on Meta class of " \o cls_name \o "."),
          val |-> ALL_FIELDS]
    ELSE [exc |-> NoExc, val |-> cls_attrs.Meta.fields]

\* dict.update(_pk=...) on the names of a _declared_fields: a new key goes
\* to the end, a key that is there keeps its place
WithPk(names) ==
    IF \E i \in 1..Len(names) : names[i] = "_pk" THEN names ELSE Append(names, "_pk")

\* the `_pk` field the metaclass declares
PkField ==
    FieldObject("field", "IntegerField", ("write_only" :> TRUE) @@ ("required" :> FALSE))

\* InjectPk that leaves a field list alone when `_pk` is in it
InjectPkOnce(cs, cls) ==
    [cs EXCEPT ![cls].declared_names = WithPk(@),
               ![cls].declared = ("_pk" :> PkField) @@ @,
               ![cls].Meta.fields =
                   IF @.all \/ \E i \in 1..Len(@.names) : @.names[i] = "_pk" THEN @
                   ELSE FieldNames(Append(@.names, "_pk"))]

\* the injection of `_pk` into serializer.__class__, the class of the copy
\* and of the serializer the body declares: its _declared_fields get `_pk`,
\* and its Meta.fields, unless it is "__all__", becomes the tuple with `_pk`
\* added
InjectPk(cs, cls) ==
    [cs EXCEPT ![cls].declared_names = WithPk(@),
               ![cls].declared = ("_pk" :> PkField) @@ @,
               ![cls].Meta.fields =
                   IF @.all THEN @ ELSE FieldNames(Append(@.names, "_pk"))]

\* the copy that takes the place of the declared serializer: with
\* Meta.fields "__all__" it gets its own get_default_field_names
InjectedCopy(cs, value) ==
    [value EXCEPT !.wrapped = cs[value.cls].Meta.fields.all]

IsModelSerializer(value) == value.kind = "model_serializer"

RECURSIVE InjectAll(_, _, _)
\* the loop over attrs.items(), from the i-th attribute on: the classes
\* after it
InjectAll(cs, body, i) ==
    IF i > Len(body) THEN cs
    ELSE IF IsModelSerializer(body[i].value)
         THEN InjectAll(InjectPk(cs, body[i].value.cls), body, i + 1)
         ELSE InjectAll(cs, body, i + 1)

RECURSIVE Copies(_, _, _)
\* the loop over attrs.items(), from the i-th attribute on: the body with
\* every model serializer replaced by its copy
Copies(cs, body, i) ==
    IF i > Len(body) THEN body
    ELSE IF IsModelSerializer(body[i].value)
         THEN Copies(InjectPk(cs, body[i].value.cls),
                     [body EXCEPT ![i].value = InjectedCopy(cs, @)], i + 1)
         ELSE Copies(cs, body, i + 1)

\* isinstance(value, Field): a plain field or a serializer, and no other
\* value of a class body
IsField(value) == value.kind \in {"field", "model_serializer", "list_serializer"}

\* SerializerMetaclass._get_declared_fields: the field objects of the body
\* by _creation_counter; a copy was created after every declared field
DeclaredNames(body) ==
    LET n == Len(body)
        kept == SelectSeq([i \in 1..n |-> body[i]],
                          LAMBDA a : IsField(a.value) /\ ~IsModelSerializer(a.value))
        copied == SelectSeq([i \in 1..n |-> body[i]],
                            LAMBDA a : IsModelSerializer(a.value))
    IN [i \in 1..Len(kept) |-> kept[i].name] \o [i \in 1..Len(copied) |-> copied[i].name]

DeclaredFields(body) ==
    [name \in {body[i].name : i \in {j \in 1..Len(body) : IsField(body[j].value)}} |->
        body[CHOOSE i \in 1..Len(body) : body[i].name = name].value]

\* what a class statement gives: the classes after it and the exception
Defined(cs, exc) == [classes |-> cs, exc |-> exc]

\* SerializerMetaclass.__new__(metacls, cls_name, bases, attrs)
SerializerNew(cs, metaclass, mixin, cls_name, attrs) ==
    Defined((cls_name :> Class(metaclass, mixin, attrs.Meta,
                               DeclaredNames(attrs.body),
                               DeclaredFields(attrs.body), NoRequired)) @@ cs,
            NoExc)

\* NestedCreateUpdateMetaclass.__new__(metacls, cls_name, bases, attrs)
NestedNew(cs, cls_name, attrs) ==
    IF GetMetaFields(cls_name, attrs).exc # NoExc
    THEN Defined(cs, GetMetaFields(cls_name, attrs).exc)
    ELSE SerializerNew(InjectAll(cs, attrs.body, 1), "NestedCreateUpdateMetaclass",
                       TRUE, cls_name,
                       [attrs EXCEPT !.body = Copies(cs, attrs.body, 1)])

\* rest_framework.utils.model_meta.get_field_info(model): the name of the
\* primary key, the fields and the forward relations
ModelInfo(model) ==
    CASE model = "Address" ->
           [pk |-> "id", fields |-> <<"state", "zip_code">>,
            forward_relations |-> <<"user", "tags">>]
      [] model = "User" ->
           [pk |-> "id", fields |-> <<"username", "password">>,
            forward_relations |-> <<>>]

\* ModelSerializer.get_default_field_names(declared_fields, model_info)
DefaultFieldNames(declared_fields, model_info) ==
    <<model_info.pk>> \o declared_fields \o model_info.fields
    \o model_info.forward_relations

\* the get_default_field_names of a copy that adds `_pk` only when the
\* names lack it
WrappedFieldNamesOnce(serializer, declared_fields, model_info) ==
    IF serializer.wrapped
    THEN WithPk(DefaultFieldNames(declared_fields, model_info))
    ELSE DefaultFieldNames(declared_fields, model_info)

\* serializer.get_default_field_names(declared_fields, model_info) on a
\* field object of a class
WrappedFieldNames(serializer, declared_fields, model_info) ==
    IF serializer.wrapped
    THEN DefaultFieldNames(declared_fields, model_info) \o <<"_pk">>
    ELSE DefaultFieldNames(declared_fields, model_info)

\* the classes a module has before a nested-capable class is stated:
\* class AddressSerializer(serializers.ModelSerializer), its Meta.fields
\* "__all__" or a tuple
NestedInit ==
    /\ classes \in {("AddressSerializer" :>
                        Class("SerializerMetaclass", FALSE, MetaWith(f), <<>>, <<>>,
                              NoRequired)) :
                        f \in {ALL_FIELDS, FieldNames(<<"state", "zip_code">>)}}
    /\ out = NoOut
    /\ db = EmptyStore /\ seq = [m \in Models |-> 0] /\ last = Idle
    /\ errors = EmptyMap /\ appended = <<>>
    /\ calls = NoCalls

\* a nested serializer, a to-many nested serializer and a plain field
Nested(cls) == FieldObject("model_serializer", cls, EmptyMap)
NestedMany(cls) == FieldObject("list_serializer", cls, EmptyMap)
CharField == FieldObject("field", "CharField", EmptyMap)

\* the bodies of the nested-capable classes: the serializers they nest are
\* instances of classes that exist
Bodies(cs) ==
    {<<>>,
     <<Attr("address", Nested("AddressSerializer"))>>,
     <<Attr("address", Nested("AddressSerializer")),
       Attr("home", Nested("AddressSerializer"))>>,
     <<Attr("addresses", NestedMany("AddressSerializer"))>>,
     <<Attr("username", CharField), Attr("address", Nested("AddressSerializer"))>>}
    \cup (IF "UserSerializer" \in DOMAIN cs
          THEN {<<Attr("user", Nested("UserSerializer"))>>,
                <<Attr("user", Nested("UserSerializer")),
                  Attr("address", Nested("AddressSerializer"))>>}
          ELSE {})

\* no Meta, a Meta without fields, fields = "__all__", fields = ("address",)
ClassAttrs(cs) ==
    {Attrs(FALSE, BareMeta, body) : body \in Bodies(cs)}
    \cup {Attrs(TRUE, Meta, body) :
            Meta \in {BareMeta, MetaWith(ALL_FIELDS), MetaWith(FieldNames(<<"address">>))},
            body \in Bodies(cs)}

NestedCapable == {"UserSerializer", "ClientSerializer"}

\* class cls_name(serializers.ModelSerializer, metaclass=NestedCreateUpdateMetaclass)
DefineNested ==
    \E cls_name \in NestedCapable \ DOMAIN classes, attrs \in ClassAttrs(classes) :
        /\ classes' = NestedNew(classes, cls_name, attrs).classes
        /\ out' = [op |-> "class", cls |-> cls_name, attrs |-> attrs,
                   exc |-> NestedNew(classes, cls_name, attrs).exc]
        /\ UNCHANGED <<db, seq, last, errors, appended, calls>>

\* _get_meta_fields(cls_name, cls_attrs)
CallGetMetaFields ==
    \E cls_name \in NestedCapable, attrs \in ClassAttrs(classes) :
        /\ out' = [op |-> "_get_meta_fields", cls |-> cls_name, attrs |-> attrs,
                   exc |-> GetMetaFields(cls_name, attrs).exc,
                   val |-> GetMetaFields(cls_name, attrs).val]
        /\ UNCHANGED <<db, seq, last, classes, errors, appended, calls>>

\* cls._declared_fields[name].get_default_field_names(declared_fields, model_info),
\* with the _declared_fields of the nested serializer's class, or none, and
\* the field info of its model
CallGetDefaultFieldNames ==
    \E cls \in DOMAIN classes :
      \E name \in DOMAIN classes[cls].declared :
        LET serializer == classes[cls].declared[name] IN
        /\ IsModelSerializer(serializer)
        /\ \E declared_fields \in {classes[serializer.cls].declared_names, <<>>} :
             out' = [op |-> "get_default_field_names", cls |-> cls, name |-> name,
                     declared_fields |-> declared_fields,
                     exc |-> NoExc,
                     val |-> WrappedFieldNames(
                                 serializer, declared_fields,
                                 ModelInfo(SerializerModel(serializer.cls)))]
        /\ UNCHANGED <<db, seq, last, classes, errors, appended, calls>>

NestedNext == DefineNested \/ CallGetMetaFields \/ CallGetDefaultFieldNames

NestedSpec == NestedInit /\ [][NestedNext]_vars

----------------------------------------------------------------------------
(* FieldOptionsMetaclass: the class statement and the is_valid it puts on  *)
(* the class.                                                              *)

\* set(names)
NameSet(names) == {names[i] : i \in 1..Len(names)}

RECURSIVE Join(_, _)
\* ", ".join(names), over the first n names
Join(names, n) ==
    IF n = 0 THEN ""
    ELSE IF n = 1 THEN names[1]
    ELSE Join(names, n - 1) \o ", " \o names[n]

\* extra_kwargs.setdefault(field, {}).update(params)
SetDefaultUpdate(extra_kwargs, field, params) ==
    IF field \in DOMAIN extra_kwargs
    THEN [extra_kwargs EXCEPT ![field] = Updated(@, params)]
    ELSE (field :> params) @@ extra_kwargs

\* setattr(field_obj, key, value); field_obj._kwargs[key] = value, for every
\* item of params
SetParams(field_obj, params) ==
    [field_obj EXCEPT !.attrs = Updated(@, params), !.kwargs = Updated(@, params)]

\* ApplyParams that writes extra_kwargs whatever Meta.fields is
ApplyParamsUnchecked(c, Meta, field, params) ==
    IF field \in DOMAIN c.declared
    THEN [c EXCEPT !.declared[field] = SetParams(@, params)]
    ELSE [c EXCEPT !.extra_kwargs = SetDefaultUpdate(@, field, params)]

\* params for one field: on the field object when the class declares the
\* field, in extra_kwargs when Meta.fields is "__all__" or has the field,
\* nowhere otherwise.  c is the _declared_fields and the extra_kwargs so far
ApplyParams(c, Meta, field, params) ==
    IF field \in DOMAIN c.declared
    THEN [c EXCEPT !.declared[field] = SetParams(@, params)]
    ELSE IF Meta.fields.all \/ field \in NameSet(Meta.fields.names)
    THEN [c EXCEPT !.extra_kwargs = SetDefaultUpdate(@, field, params)]
    ELSE c

RECURSIVE ApplyToFields(_, _, _, _, _)
\* for field in fields, from the i-th on
ApplyToFields(c, Meta, fields, i, params) ==
    IF i > Len(fields) THEN c
    ELSE ApplyToFields(ApplyParams(c, Meta, fields[i], params), Meta, fields, i + 1,
                       params)

RECURSIVE ApplyEntries(_, _, _, _)
\* for fields, params_dict in common_field_params.items(), from the j-th on
ApplyEntries(c, Meta, entries, j) ==
    IF j > Len(entries) THEN c
    ELSE ApplyEntries(ApplyToFields(c, Meta, entries[j].fields, 1, entries[j].params),
                      Meta, entries, j + 1)

\* NonRequiredFields without the default: only `_pk` when the option is absent
NonRequiredFieldsNoDefault(Meta) ==
    (IF Meta.has_non_required_fields THEN Meta.non_required_fields ELSE <<>>)
    \o <<"_pk">>

\* Meta.non_required_fields, or its default, with `_pk`
NonRequiredFields(Meta) ==
    (IF Meta.has_non_required_fields THEN Meta.non_required_fields
     ELSE IF Meta.fields.all THEN <<>>
     ELSE Meta.fields.names) \o <<"_pk">>

\* raise ValueError('"..." set inside both Meta.required_fields_on_<op> and
\* Meta.required_fields_on_<op>_any'), common the fields in the order the
\* set gives them
ConflictError(common, op) ==
    ValueError("\"" \o Join(common, Len(common)) \o "\" set inside both "
               \o "Meta.required_fields_on_" \o op \o " and "
               \o "Meta.required_fields_on_" \o op \o "_any")

\* Common that finds no name in both tuples
CommonNever(a, b, order) == <<>>

\* set(a) & set(b), listed in the order `order` has the names
Common(a, b, order) ==
    SelectSeq(order, LAMBDA f : f \in NameSet(a) \cap NameSet(b))

\* the end of FieldOptionsMetaclass.__new__: the two tests of the required
\* lists, and the class with its is_valid; c is the _declared_fields and the
\* extra_kwargs after non_required_fields and common_field_params
CheckedClass(cs, cls_name, attrs, order, c) ==
    LET Meta == attrs.Meta IN
    IF Common(Meta.required_fields_on_create, Meta.required_fields_on_create_any,
              order) # <<>>
    THEN Defined(cs, ConflictError(Common(Meta.required_fields_on_create,
                                          Meta.required_fields_on_create_any, order),
                                   "create"))
    ELSE IF Common(Meta.required_fields_on_update, Meta.required_fields_on_update_any,
                   order) # <<>>
    THEN Defined(cs, ConflictError(Common(Meta.required_fields_on_update,
                                          Meta.required_fields_on_update_any, order),
                                   "update"))
    ELSE Defined((cls_name :>
                     Class("FieldOptionsMetaclass", FALSE,
                           [Meta EXCEPT !.has_extra_kwargs = TRUE,
                                        !.extra_kwargs = c.extra_kwargs],
                           DeclaredNames(attrs.body), c.declared,
                           [on_create |-> Meta.required_fields_on_create,
                            on_update |-> Meta.required_fields_on_update,
                            on_create_any |-> Meta.required_fields_on_create_any,
                            on_update_any |-> Meta.required_fields_on_update_any]))
                 @@ cs,
                 NoExc)

\* FieldOptionsMetaclass.__new__(metacls, cls_name, bases, attrs); order is
\* the order in which a set of field names is iterated
FieldOptionsNew(cs, cls_name, attrs, order) ==
    CheckedClass(cs, cls_name, attrs, order,
                 ApplyEntries(
                     ApplyToFields([declared |-> DeclaredFields(attrs.body),
                                    extra_kwargs |-> attrs.Meta.extra_kwargs],
                                   attrs.Meta, NonRequiredFields(attrs.Meta), 1,
                                   ("required" :> FALSE)),
                     attrs.Meta, attrs.Meta.common_field_params, 1))

\* the raw input of a serializer: a mapping, or a list
Mapping(d) == [mapping |-> TRUE, d |-> d]
NotMapping == [mapping |-> FALSE, d |-> EmptyMap]

\* what is_valid gives: the exception it raises, or the value it returns
Valid(exc, val) == [exc |-> exc, val |-> val]

\* ValidationError(errors), errors a dict from key to list of messages
ErrorsRaised(errs) == ValidationError(Dict([k \in DOMAIN errs |-> List(errs[k])]))

\* the fields of a serializer of the class, by name
SerializerFields(cls) ==
    IF cls.Meta.fields.all
    THEN NameSet(ModelInfo("Address").fields) \cup DOMAIN cls.declared
    ELSE NameSet(cls.Meta.fields.names)

\* whether the field of that name is required: the declared field's
\* attribute, or the extra_kwargs of the field of the model, which is
\* required without them
IsRequired(cls, name) ==
    IF name \in DOMAIN cls.declared
    THEN IF "required" \in DOMAIN cls.declared[name].attrs
         THEN cls.declared[name].attrs["required"] ELSE TRUE
    ELSE IF name \in DOMAIN cls.Meta.extra_kwargs
            /\ "required" \in DOMAIN cls.Meta.extra_kwargs[name]
    THEN cls.Meta.extra_kwargs[name]["required"]
    ELSE TRUE

\* rest_framework's is_valid (is_valid_orig): a raw input that is no mapping
\* is an error, and so is every required field the mapping lacks
IsValidOrigErrors(cls, data) ==
    IF ~data.mapping
    THEN ("non_field_errors" :> <<"Invalid data. Expected a dictionary.">>)
    ELSE [name \in {f \in SerializerFields(cls) :
                       IsRequired(cls, f) /\ f \notin DOMAIN data.d} |->
             <<"This field is required.">>]

\* if errors: raise ValidationError(errors) when raise_exception, else
\* return False
Invalid(errs, raise_exception) ==
    IF raise_exception THEN Valid(ErrorsRaised(errs), FALSE) ELSE Valid(NoExc, FALSE)

IsValidOrig(cls, data, raise_exception) ==
    IF DOMAIN IsValidOrigErrors(cls, data) # {}
    THEN Invalid(IsValidOrigErrors(cls, data), raise_exception)
    ELSE Valid(NoExc, TRUE)

RECURSIVE RequiredErrors(_, _, _, _)
\* for field in required_fields: if field not in data: update_error_dict(...),
\* from the i-th field on
RequiredErrors(errs, required_fields, data, i) ==
    IF i > Len(required_fields) THEN errs
    ELSE IF required_fields[i] \notin DOMAIN data
         THEN RequiredErrors(UpdateErrorDict(errs, required_fields[i],
                                             "This field is required."),
                             required_fields, data, i + 1)
         ELSE RequiredErrors(errs, required_fields, data, i + 1)

AtLeastOne(required_fields_any) ==
    "At least one of \"" \o Join(required_fields_any, Len(required_fields_any))
    \o "\" is required."

\* AnyErrors that asks for every field of the group
AnyErrorsAll(errs, required_fields_any, data) ==
    IF /\ Len(required_fields_any) > 0
       /\ \E i \in 1..Len(required_fields_any) : required_fields_any[i] \notin DOMAIN data
    THEN UpdateErrorDict(errs, NON_FIELD_ERRORS_KEY, AtLeastOne(required_fields_any))
    ELSE errs

\* if required_fields_any: for field in required_fields_any: ... else: ...
AnyErrors(errs, required_fields_any, data) ==
    IF /\ Len(required_fields_any) > 0
       /\ \A i \in 1..Len(required_fields_any) : required_fields_any[i] \notin DOMAIN data
    THEN UpdateErrorDict(errs, NON_FIELD_ERRORS_KEY, AtLeastOne(required_fields_any))
    ELSE errs

\* UpdateMode that looks at the instance only
UpdateModeBound(instance, data) == instance # None

\* obj.instance or "_pk" in data
UpdateMode(instance, data) == instance # None \/ "_pk" \in DOMAIN data

\* the errors of the two required_fields_* checks of is_valid
CheckErrors(cls, instance, data) ==
    IF UpdateMode(instance, data)
    THEN AnyErrors(RequiredErrors(EmptyMap, cls.required.on_update, data, 1),
                   cls.required.on_update_any, data)
    ELSE AnyErrors(RequiredErrors(EmptyMap, cls.required.on_create, data, 1),
                   cls.required.on_create_any, data)

\* is_valid(obj, raise_exception) of a class made by FieldOptionsMetaclass,
\* obj built on instance (None: unbound) and the raw input data
IsValid(cls, instance, data, raise_exception) ==
    IF data.mapping /\ DOMAIN CheckErrors(cls, instance, data.d) # {}
    THEN Invalid(CheckErrors(cls, instance, data.d), raise_exception)
    ELSE IsValidOrig(cls, data, raise_exception)

\* the orders in which a set of the two field names is iterated
Orders == {<<"state", "zip_code">>, <<"zip_code", "state">>}

\* the values of a required_fields_* option
RequiredLists == {<<>>, <<"state">>, <<"zip_code">>, <<"state", "zip_code">>}

\* Meta of the address serializers with required_fields_* options
RequiredMetas ==
    {[MetaWith(FieldNames(<<"state", "zip_code">>)) EXCEPT
         !.required_fields_on_create = c, !.required_fields_on_update = u,
         !.required_fields_on_create_any = ca, !.required_fields_on_update_any = ua] :
       c \in RequiredLists, u \in RequiredLists,
       ca \in RequiredLists, ua \in RequiredLists}

\* the items of common_field_params: a tuple of field names and the params
Entries ==
    {[fields |-> fields, params |-> params] :
        fields \in RequiredLists \ {<<>>},
        params \in {("allow_blank" :> TRUE), ("max_length" :> 50)}}

\* the dicts of up to MaxEntries items: no two items have the same key
EntryLists ==
    {e \in UNION {[1..n -> Entries] : n \in 0..MaxEntries} :
        \A i, j \in 1..Len(e) : i # j => e[i].fields # e[j].fields}

\* Meta of the address serializers with common_field_params, without and
\* with an extra_kwargs of their own
ParamMetas ==
    {[MetaWith(fields) EXCEPT !.common_field_params = e,
                              !.has_extra_kwargs = k # EmptyMap,
                              !.extra_kwargs = k] :
       fields \in {ALL_FIELDS, FieldNames(<<"state">>),
                   FieldNames(<<"state", "zip_code">>)},
       e \in EntryLists,
       k \in {EmptyMap, ("zip_code" :> ("max_length" :> 10))}}

\* Meta of the address serializers without and with non_required_fields
\* (the empty tuple included), and without and with an extra_kwargs that
\* makes state required
NonRequiredMetas ==
    {[MetaWith(fields) EXCEPT !.has_non_required_fields = n.has,
                              !.non_required_fields = n.names,
                              !.has_extra_kwargs = k # EmptyMap,
                              !.extra_kwargs = k] :
       fields \in {ALL_FIELDS, FieldNames(<<"state">>),
                   FieldNames(<<"state", "zip_code">>)},
       n \in {[has |-> FALSE, names |-> <<>>]}
             \cup {[has |-> TRUE, names |-> l] : l \in RequiredLists},
       k \in {EmptyMap, ("state" :> ("required" :> TRUE))}}

\* the class bodies: zip_code is declared on the class or left to the
\* model, and a declared field is one of Meta.fields
OptionsAttrs ==
    {Attrs(TRUE, Meta, <<>>) :
        Meta \in RequiredMetas \cup ParamMetas \cup NonRequiredMetas}
    \cup {Attrs(TRUE, Meta, <<Attr("zip_code", CharField)>>) :
            Meta \in {m \in ParamMetas \cup NonRequiredMetas :
                         m.fields.all \/ "zip_code" \in NameSet(m.fields.names)}}

OptionsInit ==
    /\ classes = EmptyMap /\ out = NoOut
    /\ db = EmptyStore /\ seq = [m \in Models |-> 0] /\ last = Idle
    /\ errors = EmptyMap /\ appended = <<>>
    /\ calls = NoCalls

\* class AddressSerializer(serializers.ModelSerializer, metaclass=FieldOptionsMetaclass)
DefineFieldOptions ==
    \E cls_name \in {"AddressSerializer"} \ DOMAIN classes, attrs \in OptionsAttrs,
       order \in Orders :
        /\ classes' = FieldOptionsNew(classes, cls_name, attrs, order).classes
        /\ out' = [op |-> "class", cls |-> cls_name, attrs |-> attrs,
                   exc |-> FieldOptionsNew(classes, cls_name, attrs, order).exc]
        /\ UNCHANGED <<db, seq, last, errors, appended, calls>>

\* the raw inputs: the mappings with some of state, zip_code and `_pk`, and
\* a list
RawInputs ==
    {Mapping(s @@ z @@ p) :
        s \in {EmptyMap, ("state" :> "CA")},
        z \in {EmptyMap, ("zip_code" :> "12345")},
        p \in {EmptyMap, ("_pk" :> 1)}}
    \cup {NotMapping}

\* AddressSerializer(instance, data=data).is_valid(raise_exception=raise_exception)
CallIsValid ==
    \E cls \in DOMAIN classes, instance \in {None, 1}, data \in RawInputs,
       raise_exception \in BOOLEAN :
        /\ out' = [op |-> "is_valid", cls |-> cls, instance |-> instance,
                   data |-> data, raise_exception |-> raise_exception,
                   exc |-> IsValid(classes[cls], instance, data, raise_exception).exc,
                   val |-> IsValid(classes[cls], instance, data, raise_exception).val]
        /\ UNCHANGED <<db, seq, last, classes, errors, appended, calls>>

OptionsNext == DefineFieldOptions \/ CallIsValid

OptionsSpec == OptionsInit /\ [][OptionsNext]_vars

----------------------------------------------------------------------------
(* ExtendedSerializerMetaclass and InheritableExtendedSerializerMetaclass:  *)
(* the class statement of a class with bases.  A base is its name and its   *)
(* __dict__, the attributes in the order of its body.                       *)

\* values of a class __dict__ that are no fields: a function, a class, and
\* a value that cannot be called
Function == FieldObject("function", "function", EmptyMap)
ClassObject == FieldObject("class", "type", EmptyMap)
Value(v) == FieldObject("value", v, EmptyMap)

\* callable(value)
Callable(value) == value.kind \in {"function", "class"}

\* attr.startswith("__"), for the names the bases have
StartsWithDunder(attr) == attr \in {"__module__", "__doc__"}

\* the items of base.__dict__ the comprehension keeps
Inheritable(base) ==
    SelectSeq(base.dict,
              LAMBDA a : /\ ~StartsWithDunder(a.name)
                         /\ a.name # "Meta"
                         /\ ~Callable(a.value))

\* d[name] = value on a dict, given as its items in order: a new key goes
\* to the end, a key that is there keeps its place and gets the value
SetItem(items, a) ==
    IF \E i \in 1..Len(items) : items[i].name = a.name
    THEN [i \in 1..Len(items) |-> IF items[i].name = a.name THEN a ELSE items[i]]
    ELSE Append(items, a)

RECURSIVE DictOf(_, _)
\* the dict built from the first n of a sequence of items
DictOf(items, n) ==
    IF n = 0 THEN <<>> ELSE SetItem(DictOf(items, n - 1), items[n])

RECURSIVE BaseItemsForward(_, _)
\* BaseItems over the bases in the order of the tuple
BaseItemsForward(bases, i) ==
    IF i = 0 THEN <<>>
    ELSE BaseItemsForward(bases, i - 1) \o Inheritable(bases[i])

RECURSIVE BaseItems(_, _)
\* for base in reversed(bases) for attr, value in base.__dict__.items()
\* if ...: the items kept, from the i-th base down to the first
BaseItems(bases, i) ==
    IF i = 0 THEN <<>>
    ELSE Inheritable(bases[i]) \o BaseItems(bases, i - 1)

\* attrs = {**bases_attrs, **attrs}, as the items of the class body
MergedBody(bases, body) ==
    DictOf(DictOf(BaseItems(bases, Len(bases)), Len(BaseItems(bases, Len(bases))))
               \o body,
           Len(DictOf(BaseItems(bases, Len(bases)),
                      Len(BaseItems(bases, Len(bases))))) + Len(body))

\* what the class statement gives when the metaclasses above
\* FieldOptionsMetaclass made the class: NestedCreateUpdateMixin is the
\* first base
WithMixin(r, cls_name, metaclass) ==
    IF r.exc # NoExc THEN r
    ELSE Defined([r.classes EXCEPT ![cls_name].metaclass = metaclass,
                                   ![cls_name].mixin = TRUE],
                 NoExc)

\* ExtendedSerializerMetaclass.__new__: NestedCreateUpdateMetaclass.__new__,
\* whose super().__new__ is FieldOptionsMetaclass.__new__
ExtendedNew(cs, metaclass, cls_name, attrs, order) ==
    IF GetMetaFields(cls_name, attrs).exc # NoExc
    THEN Defined(cs, GetMetaFields(cls_name, attrs).exc)
    ELSE WithMixin(FieldOptionsNew(InjectAll(cs, attrs.body, 1), cls_name,
                                   [attrs EXCEPT !.body = Copies(cs, attrs.body, 1)],
                                   order),
                   cls_name, metaclass)

\* InheritableExtendedSerializerMetaclass.__new__(metacls, cls_name, bases, attrs)
InheritableNew(cs, cls_name, bases, attrs, order) ==
    ExtendedNew(cs, "InheritableExtendedSerializerMetaclass", cls_name,
                [attrs EXCEPT !.body = MergedBody(bases, attrs.body)], order)

\* the bases: rest_framework's ModelSerializer, and three classes that hold
\* common definitions, two of them with a field of the same name, one with
\* a Meta, a method and a nested serializer
BaseClasses ==
    {[name |-> "ModelSerializer",
      dict |-> <<Attr("__module__", Value("rest_framework.serializers")),
                 Attr("url_field_name", Value("None")),
                 Attr("create", Function)>>],
     [name |-> "Common",
      dict |-> <<Attr("__doc__", Value("None")),
                 Attr("field", FieldObject("field", "IntegerField", EmptyMap)),
                 Attr("Meta", ClassObject),
                 Attr("helper", Function)>>],
     [name |-> "Other",
      dict |-> <<Attr("field", CharField),
                 Attr("address", Nested("AddressSerializer")),
                 Attr("helper", Value("5"))>>],
     [name |-> "Labels",
      dict |-> <<Attr("label", CharField), Attr("url_field_name", Value("url"))>>]}

\* the tuples of up to MaxBases different bases
BaseTuples ==
    {b \in UNION {[1..n -> BaseClasses] : n \in 0..MaxBases} :
        \A i, j \in 1..Len(b) : i # j => b[i] # b[j]}

\* the bodies of the class: nothing, a field of a name the bases have, a
\* field and a method of its own
InheritBodies ==
    {<<>>,
     <<Attr("field", FieldObject("field", "CharField", ("max_length" :> 50)))>>,
     <<Attr("name", CharField), Attr("helper", Function)>>}

InheritAttrs ==
    {Attrs(FALSE, BareMeta, body) : body \in InheritBodies}
    \cup {Attrs(TRUE, Meta, body) :
            Meta \in {MetaWith(ALL_FIELDS), MetaWith(FieldNames(<<"field", "name">>))},
            body \in InheritBodies}

InheritInit == NestedInit

\* class ClientSerializer(*bases, metaclass=InheritableExtendedSerializerMetaclass)
DefineInheritable ==
    \E cls_name \in {"ClientSerializer"} \ DOMAIN classes, bases \in BaseTuples,
       attrs \in InheritAttrs, order \in Orders :
        /\ classes' = InheritableNew(classes, cls_name, bases, attrs, order).classes
        /\ out' = [op |-> "class", cls |-> cls_name, attrs |-> attrs, bases |-> bases,
                   merged |-> MergedBody(bases, attrs.body),
                   exc |-> InheritableNew(classes, cls_name, bases, attrs, order).exc]
        /\ UNCHANGED <<db, seq, last, errors, appended, calls>>

InheritNext == DefineInheritable

InheritSpec == InheritInit /\ [][InheritNext]_vars

----------------------------------------------------------------------------
(* Calls that run at the same time.  create() and update() take no lock    *)
(* and open no transaction, so the store calls of two callers interleave.  *)
(* A step of a call is one store-visible unit of its code: one nested      *)
(* payload resolved by _handle_single_instance_data, one instance.delete() *)
(* of the except clause, the parent's create() or save(), the set() calls. *)
(* Everything else of a call is local to it: the position in the loops,    *)
(* the two mappings, created_instances and validated_data.                 *)

Callers == 1..MaxCallers

CallSerializer == "ClientSerializer"

\* a caller that has not called: pc is where its call is, (i, k) the field
\* of self._writable_fields and the element of its list the loops are at,
\* loaded the row of the instance that update() was given
NotCalled ==
    [pc |-> "idle", op |-> "", instance |-> None, loaded |-> EmptyMap,
     payload |-> EmptyMap, i |-> 1, k |-> 1, exc |-> NoExc, one |-> EmptyMap,
     many |-> EmptyMap, created |-> <<>>, data |-> EmptyMap, todo |-> {},
     trace |-> <<>>, val |-> None]

\* the store as caller c finds it, and the store calls c has made
CallWorld(c) ==
    [db |-> db, seq |-> seq, trace |-> calls[c].trace, path |-> <<>>,
     origin |-> NoOrigin, forwarded |-> <<>>]

\* the locals of _get_related_field_data in the call cur, on the store w
Locals(cur, w) ==
    [w |-> w, exc |-> cur.exc, one |-> cur.one, many |-> cur.many,
     created |-> cur.created, data |-> cur.data]

\* the call cur with the locals st
WithLocals(cur, st) ==
    [cur EXCEPT !.exc = st.exc, !.one = st.one, !.many = st.many,
                !.created = st.created, !.data = st.data, !.trace = st.w.trace]

\* a to-many field of a nested serializer: its payload is resolved one
\* element at a time
Elementwise(ser, model, field_name) ==
    RelationInfo(model, field_name).to_many /\ Field(ser, field_name).is_serializer

\* a relational field that is no nested serializer: its data goes to the
\* mapping of its kind as it is, and no store call is made
Assigned(cur, model, field_name) ==
    IF RelationInfo(model, field_name).to_many
    THEN [cur EXCEPT !.many = (field_name :> cur.payload[field_name]) @@ @,
                     !.data = Without(@, field_name)]
    ELSE [cur EXCEPT !.one = (field_name :> cur.payload[field_name]) @@ @,
                     !.data = Without(@, field_name)]

RECURSIVE NextPayload(_, _, _)
\* the two loops between one nested payload and the next: a field that is
\* not in validated_data or is no relation is passed, a relational field
\* that is no serializer is assigned, a list whose elements are all
\* resolved has been popped
NextPayload(cur, ser, model) ==
    IF cur.i > Len(WritableFields(ser)) THEN cur
    ELSE IF WritableFields(ser)[cur.i] \notin DOMAIN cur.payload
            \/ ~InRelations(model, WritableFields(ser)[cur.i])
    THEN NextPayload([cur EXCEPT !.i = @ + 1, !.k = 1], ser, model)
    ELSE IF ~Field(ser, WritableFields(ser)[cur.i]).is_serializer
    THEN NextPayload([Assigned(cur, model, WritableFields(ser)[cur.i])
                          EXCEPT !.i = @ + 1, !.k = 1],
                     ser, model)
    ELSE IF Elementwise(ser, model, WritableFields(ser)[cur.i])
            /\ cur.k > Len(cur.payload[WritableFields(ser)[cur.i]])
    THEN NextPayload([cur EXCEPT !.i = @ + 1, !.k = 1,
                                 !.data = Without(@, WritableFields(ser)[cur.i])],
                     ser, model)
    ELSE cur

\* Passed that leaves the loops where they are
PassedStaying(cur, ser, model) == cur

\* the loops go on: to the next element of the list, or to the next field
Passed(cur, ser, model) ==
    IF Elementwise(ser, model, WritableFields(ser)[cur.i])
    THEN [cur EXCEPT !.k = @ + 1]
    ELSE [cur EXCEPT !.i = @ + 1, !.k = 1]

\* the end of the loop over self._writable_fields: the call goes on to
\* write the parent
AtNext(cur, ser) ==
    IF cur.i > Len(WritableFields(ser)) THEN [cur EXCEPT !.pc = "writing"] ELSE cur

\* the nested payload at (cur.i, cur.k): the whole field_data of a to-one
\* field, one element of the list of a to-many field
CurrentPayload(cur, ser, model, field_name) ==
    IF Elementwise(ser, model, field_name) THEN cur.payload[field_name][cur.k]
    ELSE cur.payload[field_name]

\* the locals after _handle_single_instance_data gave r for the nested
\* payload at (cur.i, cur.k), on the store w
AfterCurrent(cur, w, r, ser, model, field_name) ==
    IF Elementwise(ser, model, field_name)
    THEN AfterElement([Locals(cur, w) EXCEPT !.data = Without(@, field_name)], r,
                      field_name, RelationInfo(model, field_name).related_model)
    ELSE AfterToOne([Locals(cur, w) EXCEPT !.data = Without(@, field_name)], r,
                    field_name, RelationInfo(model, field_name).related_model)

\* CreatedInstances that takes the instances of every call
CreatedInstancesShared(cs, c, cur) ==
    {cur.created[j] : j \in 1..Len(cur.created)}
    \cup UNION {{cs[d].created[j] : j \in 1..Len(cs[d].created)} : d \in DOMAIN cs}

\* created_instances = set(), a local of the call: the instances the call
\* cur of caller c added to it
CreatedInstances(cs, c, cur) == {cur.created[j] : j \in 1..Len(cur.created)}

\* except Exception: the instances to delete before the raise
Excepted(cs, c, cur) ==
    IF CreatedInstances(cs, c, cur) = {} THEN [cur EXCEPT !.pc = "raised"]
    ELSE [cur EXCEPT !.pc = "compensating", !.todo = CreatedInstances(cs, c, cur)]

\* the columns of a row: what instance.save() writes
Columns(model, row) ==
    [f \in {x \in DOMAIN row : ~(InRelations(model, x)
                                  /\ RelationInfo(model, x).to_many)} |-> row[f]]

\* the payloads of the calls that run side by side: an address, new or
\* the one that the other call may create, and tags
InterleavedPayloads ==
    {p \in ClientPayloads :
        /\ "user" \notin DOMAIN p
        /\ Nodes(p) <= MaxResolved
        /\ ("address" \in DOMAIN p /\ "_pk" \in DOMAIN p["address"]) =>
               p["address"]["_pk"] = MaxPk
        /\ "tags" \in DOMAIN p =>
               \A n \in 1..Len(p["tags"]) :
                   "_pk" \notin DOMAIN p["tags"][n] /\ p["tags"][n] # ("name" :> "m")}

\* the store failures of one step
CallFailures ==
    {NoFailure} \cup {[NoFailure EXCEPT !.fail_model = m, !.fail_kind = "IntegrityError"] :
                         m \in {"Client", "Tag"}}

\* the store the callers start from: one client, without user and address
InterleavedStores ==
    {s \in InitialStores : /\ DOMAIN s["Address"] = {1}
                           /\ s["Client"][1].user = None
                           /\ s["Client"][1].address = None}

InterleavedInit ==
    /\ db \in InterleavedStores
    /\ seq = [m \in Models |-> Cardinality(DOMAIN db[m])]
    /\ last = Idle
    /\ classes = EmptyMap /\ out = NoOut
    /\ errors = EmptyMap /\ appended = <<>>
    /\ calls = [c \in Callers |-> NotCalled]

\* the call of caller c has begun: update() has run its check of the to-one
\* relations, which gave exc
Begun(op, instance, loaded, payload, exc) ==
    IF exc.cls # "none"
    THEN [NotCalled EXCEPT !.pc = "raised", !.op = op, !.instance = instance,
                           !.loaded = loaded, !.payload = payload, !.exc = exc]
    ELSE AtNext(NextPayload([NotCalled EXCEPT !.pc = "resolving", !.op = op,
                                              !.instance = instance,
                                              !.loaded = loaded,
                                              !.payload = payload,
                                              !.data = payload],
                            CallSerializer, SerializerModel(CallSerializer)),
                CallSerializer)

\* caller c calls ClientSerializer().create(payload) or
\* ClientSerializer().update(instance, payload), on an instance that was
\* in the store before any of the calls
Begin(c) ==
    /\ calls[c].pc = "idle"
    /\ \E payload \in InterleavedPayloads :
         \/ calls' = [calls EXCEPT ![c] = Begun("create", None, EmptyMap, payload, NoExc)]
         \/ \E instance \in {x \in DOMAIN db[SerializerModel(CallSerializer)] :
                                 \A s \in InterleavedStores :
                                     x \in DOMAIN s[SerializerModel(CallSerializer)]} :
              calls' = [calls EXCEPT ![c] =
                           Begun("update", instance,
                                 db[SerializerModel(CallSerializer)][instance],
                                 payload,
                                 CheckRelations(CallWorld(c),
                                                SerializerModel(CallSerializer),
                                                instance, payload, 1))]
    /\ UNCHANGED <<db, seq, last, classes, out, errors, appended>>

\* the nested payload has been resolved, or has raised: st
Resolved(c, st) ==
    /\ db' = st.w.db
    /\ seq' = st.w.seq
    /\ calls' = [calls EXCEPT ![c] =
                    IF Raised(st) THEN Excepted(calls, c, WithLocals(calls[c], st))
                    ELSE AtNext(NextPayload(Passed(WithLocals(calls[c], st), CallSerializer,
                                                   SerializerModel(CallSerializer)),
                                            CallSerializer,
                                            SerializerModel(CallSerializer)),
                                CallSerializer)]
    /\ UNCHANGED <<last, classes, out, errors, appended>>

\* the call of caller c resolves the nested payload its loops are at
ResolveStep(c) ==
    /\ calls[c].pc = "resolving"
    /\ \E env \in CallFailures :
         \E r \in {HandleSingleInstanceData(
                       Under(CallWorld(c), WritableFields(CallSerializer)[calls[c].i]),
                       env,
                       RelationInfo(SerializerModel(CallSerializer),
                                    WritableFields(CallSerializer)[calls[c].i]).related_model,
                       Field(CallSerializer, WritableFields(CallSerializer)[calls[c].i]),
                       CurrentPayload(calls[c], CallSerializer,
                                      SerializerModel(CallSerializer),
                                      WritableFields(CallSerializer)[calls[c].i]))} :
           \E st \in {AfterCurrent(calls[c], CallWorld(c), r, CallSerializer,
                                    SerializerModel(CallSerializer),
                                    WritableFields(CallSerializer)[calls[c].i])} :
             Resolved(c, st)

\* instance.delete() has returned: w
Deleted(c, h, w) ==
    /\ db' = w.db
    /\ seq' = w.seq
    /\ calls' = [calls EXCEPT ![c] =
                    [calls[c] EXCEPT !.trace = w.trace,
                                     !.todo = @ \ {h},
                                     !.pc = IF calls[c].todo = {h} THEN "raised"
                                            ELSE "compensating"]]

\* instance.delete() has raised: the exception leaves the except clause
DeleteRaised(c, h) ==
    /\ calls' = [calls EXCEPT ![c] =
                    [calls[c] EXCEPT
                        !.trace = Logged(CallWorld(c),
                                         Op("delete_failed", h.model, h.id)).trace,
                        !.exc = OtherError("DatabaseError", "delete"),
                        !.pc = "raised"]]
    /\ UNCHANGED <<db, seq>>

\* for instance in created_instances: instance.delete(), one instance (a
\* set is iterated in no given order); after the last one, raise
DeleteStep(c) ==
    /\ calls[c].pc = "compensating"
    /\ \E h \in calls[c].todo :
         \/ \E w \in {Delete(CallWorld(c), h)} : Deleted(c, h, w)
         \/ DeleteRaised(c, h)
    /\ UNCHANGED <<last, classes, out, errors, appended>>

\* the parent's create() or save() has returned or raised: r
Written(c, r) ==
    /\ db' = r.w.db
    /\ seq' = r.w.seq
    /\ calls' = [calls EXCEPT ![c] =
                    [calls[c] EXCEPT
                        !.trace = r.w.trace,
                        !.exc = r.exc,
                        !.val = r.val,
                        !.pc = IF Raised(r) THEN "raised"
                               ELSE IF DOMAIN calls[c].many = {} THEN "returned"
                               ELSE "setting"]]
    /\ UNCHANGED <<last, classes, out, errors, appended>>

\* validated_data.update(related_to_one_fields_data), then the parent is
\* created, or the instance update() was given is saved
WriteStep(c) ==
    /\ calls[c].pc = "writing"
    /\ \E env \in CallFailures :
         \E r \in {IF calls[c].op = "create"
                    THEN CatchTypeError(
                             ManagerCreate(CallWorld(c), env,
                                           SerializerModel(CallSerializer),
                                           Updated(calls[c].data, calls[c].one)),
                             SerializerModel(CallSerializer), CallSerializer)
                    ELSE SetAttrsAndSave(
                             CallWorld(c), env, SerializerModel(CallSerializer),
                             calls[c].instance,
                             Updated(Columns(SerializerModel(CallSerializer),
                                             calls[c].loaded),
                                     Updated(calls[c].data, calls[c].one)))} :
           Written(c, r)

\* the set() calls have been made: w
HasSet(c, w) ==
    /\ db' = w.db
    /\ seq' = w.seq
    /\ calls' = [calls EXCEPT ![c] =
                    [calls[c] EXCEPT !.trace = w.trace, !.pc = "returned"]]
    /\ UNCHANGED <<last, classes, out, errors, appended>>

\* for field_name, value in related_to_many_fields_data.items():
\*     field.set(value); return instance
SetStep(c) ==
    /\ calls[c].pc = "setting"
    /\ \E w \in {SetCollections(CallWorld(c), SerializerModel(CallSerializer),
                                calls[c].val, calls[c].many,
                                RelationNames(SerializerModel(CallSerializer)))} :
         HasSet(c, w)

\* the steps of the call that caller c has begun
Run(c) == ResolveStep(c) \/ DeleteStep(c) \/ WriteStep(c) \/ SetStep(c)

InterleavedNext == \E c \in Callers : Begin(c) \/ Run(c)

InterleavedSpec == InterleavedInit /\ [][InterleavedNext]_vars

\* a call that has begun is run on: a thread that can take a step is
\* scheduled again
InterleavedFairSpec ==
    InterleavedSpec /\ \A c \in Callers : WF_vars(Run(c))

----------------------------------------------------------------------------
(* Properties.  They are stated on the call that has returned: last holds  *)
(* the call, its payload, the store before it (last.db), its store calls   *)
(* (last.trace) and what the caller gets; db is the store after it.        *)

\* a call of the client serializer, or of one of its nested fields, returned
Called(ops) ==
    last.phase = "returned" /\ last.ser = "ClientSerializer" /\ last.op \in ops

Failing == last.exc.cls # "none"

\* the store calls of the call, by position
Steps == 1..Len(last.trace)

\* the objects the call created for a payload `depth` fields below the top
CreatedAt(depth) ==
    {i \in Steps : last.trace[i].op = "create" /\ Len(last.trace[i].path) = depth}

InStore(i) == last.trace[i].id \in DOMAIN db[last.trace[i].model]

\* the to-one relations of the client
ToOne ==
    {f \in {RelationNames("Client")[i] : i \in 1..Len(RelationNames("Client"))} :
        ~RelationInfo("Client", f).to_many}

Related(f) == RelationInfo("Client", f).related_model

\* what the updated client held in its slot f before the call
Slot(f) == last.db["Client"][last.instance][f]

\* the payload has a mapping for f and the slot f holds an object
Held(f) == f \in DOMAIN last.payload /\ Slot(f) # None

Mismatched(f) ==
    Held(f) /\ "_pk" \in DOMAIN last.payload[f] /\ last.payload[f]["_pk"] # Slot(f)

MissingPk(f) == Held(f) /\ "_pk" \notin DOMAIN last.payload[f]

\* no relation before f, in the order of the relations, fails update's check
FirstChecked(f) ==
    \A i, j \in 1..Len(RelationNames("Client")) :
        (RelationNames("Client")[j] = f /\ i < j /\ RelationNames("Client")[i] \in ToOne)
            => ~(Mismatched(RelationNames("Client")[i])
                 \/ MissingPk(RelationNames("Client")[i]))

\* the exception is a validation error {f: [message]}
KeyedBy(exc, f, message) ==
    /\ exc.cls = "ValidationError"
    /\ Len(exc.args) = 1
    /\ exc.args[1].t = "dict"
    /\ DOMAIN exc.args[1].d = {f}
    /\ exc.args[1].d[f].t = "list"
    /\ exc.args[1].d[f].l = <<message>>

\* C1: when a create or update call fails with a validation error (a later
\* sibling field or element failed validation or lookup), every related
\* object that the relation-resolution loop of the call created, that is
\* every object created for a nested payload one field below the top, is no
\* longer in the store when the failure reaches the caller.
C1_RollbackOnPartialFailure ==
    (Called({"create", "update"}) /\ IsValidationError(last.exc))
        => \A i \in CreatedAt(1) : ~InStore(i)

\* a nested object was created one field below the top, a later sibling
\* failed, and the object was deleted again
C1_Witness ==
    /\ Called({"create", "update"})
    /\ IsValidationError(last.exc)
    /\ \E i \in CreatedAt(1) :
         /\ ~InStore(i)
         /\ \E j \in Steps : /\ j > i
                             /\ last.trace[j].op = "delete"
                             /\ last.trace[j].model = last.trace[i].model
                             /\ last.trace[j].id = last.trace[i].id

\* C2: no orphans on any failure: when all nested fields were resolved and
\* the parent's own create() or save() then fails, every nested object
\* created during the call is gone from the store.
C2_NoOrphansWhenParentFails ==
    (Called({"create", "update"})
     /\ \E i \in Steps : /\ last.trace[i].op \in {"create_failed", "save_failed"}
                         /\ last.trace[i].path = <<>>)
        => \A i \in CreatedAt(1) \cup CreatedAt(2) : ~InStore(i)

\* C3: the compensation set covers the whole top-level call: when the call
\* fails with a validation error, the objects it created at any depth, a
\* depth-1 object and the depth-2 object created with it, are deleted.
C3_CompensationCoversEveryDepth ==
    (Called({"create", "update"}) /\ IsValidationError(last.exc))
        => \A i \in CreatedAt(2) : ~InStore(i)

\* C4: an update whose to-one payload carries a `_pk` other than the id of
\* the object held in that slot fails with a validation error and changes
\* nothing in the store (no store call is made), whatever the other nested
\* fields are; the error is keyed by the field name and cites the given id
\* when no earlier relation fails the check.
C4_MismatchedPkRejected ==
    Called({"update"}) =>
        \A f \in ToOne :
            Mismatched(f) =>
                /\ last.exc.cls = "ValidationError"
                /\ db = last.db
                /\ last.trace = <<>>
                /\ FirstChecked(f) =>
                       KeyedBy(last.exc, f,
                               NoSuchObject(Related(f), last.payload[f]["_pk"]))

\* the update carried a mismatched `_pk` for the address and a user
\* payload that is valid and passes the check
C4_Witness ==
    /\ Called({"update"})
    /\ Mismatched("address")
    /\ "user" \in DOMAIN last.payload
    /\ ~Mismatched("user") /\ ~MissingPk("user")
    /\ DOMAIN ValidationErrors("UserSerializer", last.payload["user"]) = {}
    /\ KeyedBy(last.exc, "address",
               NoSuchObject("Address", last.payload["address"]["_pk"]))

\* C5: an update whose to-one payload has no `_pk` while the slot holds an
\* object fails with a validation error before any nested object is created
\* or updated and before the parent is saved (no store call is made, the
\* store is unchanged); the error is {field: ["Related object already
\* exists."]} when no earlier relation fails the check.
C5_MissingPkRejected ==
    Called({"update"}) =>
        \A f \in ToOne :
            MissingPk(f) =>
                /\ last.exc.cls = "ValidationError"
                /\ last.trace = <<>>
                /\ db = last.db
                /\ FirstChecked(f) =>
                       KeyedBy(last.exc, f, "Related object already exists.")

\* the update carried a payload without `_pk` for the user the client holds
C5_Witness ==
    /\ Called({"update"})
    /\ MissingPk("user")
    /\ KeyedBy(last.exc, "user", "Related object already exists.")

\* the store calls made for the payload of the top-level field f
StepsOf(f) == {i \in Steps : last.trace[i].path = <<f>>}

\* C6: an update's to-one payload never re-points the parent to, nor
\* modifies, an object that existed before the call and is not the one the
\* parent held in that slot, the empty slot with the `_pk` of an existing
\* object included.
C6_NoForeignObjectThroughToOne ==
    Called({"update"}) =>
        \A f \in ToOne :
            f \in DOMAIN last.payload =>
                /\ \A i \in StepsOf(f) :
                       last.trace[i].op = "save" => last.trace[i].id = Slot(f)
                /\ db["Client"][last.instance][f]
                       \in {Slot(f)} \cup (DOMAIN db[Related(f)] \ DOMAIN last.db[Related(f)])

\* the scalar fields of a payload are the values of the object
Carries(store, model, id, ser, payload) ==
    \A k \in DOMAIN payload \ {"_pk"} :
        ~Field(ser, k).is_serializer => store[model][id][k] = payload[k]

\* the objects of the model that were in the store before the call are
\* there after it, as they were
Untouched(model) ==
    \A id \in DOMAIN last.db[model] :
        id \in DOMAIN db[model] /\ db[model][id] = last.db[model][id]

\* C7: a nested payload without `_pk` is validated and, when valid, saved
\* as a brand-new related object: _handle_single_instance_data reports
\* created = True, the id of the object is not the id of any object that was
\* there before, the object has the payload's values, and no related object
\* that was there before is modified; an invalid payload gives a validation
\* error and leaves the store alone.  A create whose to-one payload has no
\* `_pk` ends with the parent holding an object that is new, the one store
\* call made for that payload being its creation.
C7_NoPkCreatesNewObject ==
    /\ (Called({"resolve"}) /\ "_pk" \notin DOMAIN last.payload) =>
           /\ Untouched(Related(last.field))
           /\ DOMAIN ValidationErrors(Field("ClientSerializer", last.field).ser,
                                      last.payload) # {}
                  => (last.exc.cls = "ValidationError" /\ db = last.db)
           /\ ~Failing =>
                  /\ last.created
                  /\ last.val \notin DOMAIN last.db[Related(last.field)]
                  /\ last.val \in DOMAIN db[Related(last.field)]
                  /\ Carries(db, Related(last.field), last.val,
                             Field("ClientSerializer", last.field).ser, last.payload)
    /\ (Called({"create"}) /\ ~Failing) =>
           \A f \in ToOne :
               (f \in DOMAIN last.payload /\ "_pk" \notin DOMAIN last.payload[f]) =>
                   /\ db["Client"][last.val][f] \in DOMAIN db[Related(f)]
                   /\ db["Client"][last.val][f] \notin DOMAIN last.db[Related(f)]
                   /\ \A i \in StepsOf(f) :
                          /\ last.trace[i].op = "create"
                          /\ last.trace[i].model = Related(f)
                          /\ last.trace[i].id = db["Client"][last.val][f]

\* _handle_single_instance_data created an address from a payload without
\* `_pk` while other addresses were in the store
C7_Witness ==
    /\ Called({"resolve"})
    /\ last.field = "address"
    /\ "_pk" \notin DOMAIN last.payload
    /\ ~Failing
    /\ last.created
    /\ last.val \notin DOMAIN last.db["Address"]
    /\ db["Address"][last.val].zip_code = "n"

\* C8: an update whose to-one payload carries the `_pk` of the object the
\* parent holds changes that object in place: after the call the object has
\* the payload's values under the same id, no object was created for the
\* field, and the parent still holds the object;
\* _handle_single_instance_data reports created = False and the object of
\* the `_pk`, with no new object of the related model.
C8_MatchingPkUpdatesInPlace ==
    /\ (Called({"update"}) /\ ~Failing) =>
           \A f \in ToOne :
               (Held(f) /\ "_pk" \in DOMAIN last.payload[f]
                /\ last.payload[f]["_pk"] = Slot(f)) =>
                   /\ db["Client"][last.instance][f] = Slot(f)
                   /\ Slot(f) \in DOMAIN db[Related(f)]
                   /\ Carries(db, Related(f), Slot(f),
                              Field("ClientSerializer", f).ser, last.payload[f])
                   /\ \A i \in StepsOf(f) : last.trace[i].op # "create"
                   /\ \E i \in StepsOf(f) : /\ last.trace[i].op = "save"
                                            /\ last.trace[i].model = Related(f)
                                            /\ last.trace[i].id = Slot(f)
                   /\ DOMAIN db[Related(f)] \cap {last.trace[i].id : i \in StepsOf(f)}
                          \subseteq DOMAIN last.db[Related(f)]
    /\ (Called({"resolve"}) /\ "_pk" \in DOMAIN last.payload /\ ~Failing) =>
           /\ ~last.created
           /\ last.val = last.payload["_pk"]
           /\ DOMAIN db[Related(last.field)] = DOMAIN last.db[Related(last.field)]
           /\ Carries(db, Related(last.field), last.val,
                      Field("ClientSerializer", last.field).ser, last.payload)

\* the update changed the address the client holds, in place
C8_Witness ==
    /\ Called({"update"})
    /\ ~Failing
    /\ Held("address")
    /\ "_pk" \in DOMAIN last.payload["address"]
    /\ last.payload["address"]["_pk"] = Slot("address")
    /\ last.db["Address"][Slot("address")].zip_code = "o"
    /\ db["Address"][Slot("address")].zip_code = "n"
    /\ db["Client"][last.instance].address = Slot("address")

RECURSIVE Nest(_, _)
\* the error content under the chain of the field names of path
Nest(path, detail) ==
    IF path = <<>> THEN detail
    ELSE Dict(Head(path) :> Nest(Tail(path), detail))

\* C10: a validation error that a create or an update raises is the error
\* of the failing payload wrapped once for every level between the top and
\* that payload: its content is the content the error was first raised with,
\* under the chain of the nested field names that lead to the payload it was
\* raised for, so two levels deep it is {outer_field: {inner_field: ...}}.
C10_ErrorNestedOncePerLevel ==
    (Called({"create", "update"}) /\ IsValidationError(last.exc)) =>
        /\ Len(last.exc.args) = 1
        /\ Len(last.origin.exc.args) = 1
        /\ last.exc.args[1] = Nest(last.origin.path, last.origin.exc.args[1])

\* a create failed on a payload two fields below the top
C10_Witness ==
    /\ Called({"create"})
    /\ IsValidationError(last.exc)
    /\ last.origin.path = <<"user", "address">>
    /\ last.exc.args[1].d["user"].d["address"] = last.origin.exc.args[1]

\* the lookup of step i found nothing: no object of that id was in the store
\* before the call and the call created none before the step
NotFoundAt(i) ==
    /\ last.trace[i].op = "get"
    /\ last.trace[i].id \notin DOMAIN last.db[last.trace[i].model]
    /\ \A j \in 1..(i - 1) :
           ~(/\ last.trace[j].op = "create"
             /\ last.trace[j].model = last.trace[i].model
             /\ last.trace[j].id = last.trace[i].id)

\* the exception is a validation error {f: {"__all__": [message]}}
KeyedNonField(exc, f, message) ==
    /\ exc.cls = "ValidationError"
    /\ Len(exc.args) = 1
    /\ exc.args[1].t = "dict"
    /\ DOMAIN exc.args[1].d = {f}
    /\ exc.args[1].d[f].t = "dict"
    /\ DOMAIN exc.args[1].d[f].d = {NON_FIELD_ERRORS_KEY}
    /\ exc.args[1].d[f].d[NON_FIELD_ERRORS_KEY].t = "list"
    /\ exc.args[1].d[f].d[NON_FIELD_ERRORS_KEY].l = <<message>>

PayloadAt(i) ==
    IF Len(last.trace[i].path) = 1
    THEN last.payload[last.trace[i].path[1]]
    ELSE last.payload[last.trace[i].path[1]][last.trace[i].path[2]]

\* the serializer of the nested field the store call of step i was made for
SerializerAt(i) ==
    IF Len(last.trace[i].path) = 1
    THEN Field("ClientSerializer", last.trace[i].path[1]).ser
    ELSE Field(Field("ClientSerializer", last.trace[i].path[1]).ser,
               last.trace[i].path[2]).ser

\* the saves of existing related objects made for nested payloads
NestedSaves ==
    {i \in Steps : last.trace[i].op = "save" /\ Len(last.trace[i].path) \in {1, 2}}

\* C12: updates of existing related objects are not compensated: when a
\* create or update call fails after a nested payload with a valid `_pk`
\* updated an existing related object, that object is still in the store
\* after the call and has the values of the payload.
C12_UpdatesNotCompensated ==
    (Called({"create", "update"}) /\ Failing) =>
        \A i \in NestedSaves :
            /\ InStore(i)
            /\ Carries(db, last.trace[i].model, last.trace[i].id,
                       SerializerAt(i), PayloadAt(i))

\* an update changed the address the client holds, then an element of tags
\* failed: the address keeps the new value
C12_Witness ==
    /\ Called({"update"})
    /\ IsValidationError(last.exc)
    /\ \E i \in NestedSaves :
           /\ last.trace[i].path = <<"address">>
           /\ last.db["Address"][last.trace[i].id].zip_code = "o"
           /\ db["Address"][last.trace[i].id].zip_code = "n"
    /\ last.origin.path = <<"tags">>

\* the deletions of the call, those that raised included
Deletions == {i \in Steps : last.trace[i].op \in {"delete", "delete_failed"}}

\* step i deletes an object that an earlier step of the call created
DeletesOwn(i) ==
    \E j \in 1..(i - 1) : /\ last.trace[j].op = "create"
                          /\ last.trace[j].model = last.trace[i].model
                          /\ last.trace[j].id = last.trace[i].id

\* C13: compensation deletes only what the call itself created: every
\* deletion of a create or update call is of an object that the call created
\* and that was not in the store before it, and every object that was in the
\* store before the call is in the store after it, whatever was created and
\* updated before the failure.
C13_CompensationDeletesOnlyOwn ==
    Called({"create", "update"}) =>
        /\ \A i \in Deletions :
               /\ last.trace[i].id \notin DOMAIN last.db[last.trace[i].model]
               /\ DeletesOwn(i)
        /\ \A m \in Models : DOMAIN last.db[m] \subseteq DOMAIN db[m]

\* a call updated an existing address, created a tag and then failed: the
\* tag was deleted, the address was not
C13_Witness ==
    /\ Called({"create", "update"})
    /\ Failing
    /\ \E i \in NestedSaves : last.trace[i].path = <<"address">> /\ InStore(i)
    /\ \E i \in CreatedAt(1) : last.trace[i].path = <<"tags">> /\ ~InStore(i)
    /\ \E i \in Deletions : last.trace[i].model = "Tag"

\* the set-collection calls of the call
SetSteps == {i \in Steps : last.trace[i].op = "set"}

\* the store call that writes the parent: create() in a create, save() in
\* an update
ParentWrite == IF last.op = "create" THEN "create" ELSE "save"

\* C14: every set-collection call of a create or an update is made on the
\* parent after the parent's create() (create) or save() (update) has
\* succeeded, and a call that fails, in the nested resolution or in the
\* parent's create()/save(), makes no set-collection call.
C14_SetAfterParentWrite ==
    Called({"create", "update"}) =>
        /\ \A i \in SetSteps :
               \E j \in 1..(i - 1) :
                   /\ last.trace[j].op = ParentWrite
                   /\ last.trace[j].path = <<>>
                   /\ last.trace[j].model = last.trace[i].model
                   /\ last.trace[j].id = last.trace[i].id
        /\ Failing => SetSteps = {}

\* an update saved the client and then set its tags
C14_Witness ==
    /\ Called({"update"})
    /\ ~Failing
    /\ \E i \in SetSteps :
           /\ last.trace[i].field = "tags"
           /\ Len(last.trace[i].ids) > 0
           /\ last.trace[i - 1].op = "save"
           /\ last.trace[i - 1].model = "Client"

\* C15: whenever _handle_single_instance_data hands a nested payload to the
\* nested serializer, to create or to update, the `_pk` key has been removed
\* from it: no input of a nested serializer has the key at its own level.
C15_PkConsumed ==
    Called({"create", "update", "resolve"}) =>
        \A k \in 1..Len(last.forwarded) : "_pk" \notin DOMAIN last.forwarded[k].data

\* an update handed the address payload, that came with the `_pk` of the
\* address the client holds, to the serializer bound to that address
C15_Witness ==
    /\ Called({"update"})
    /\ Held("address")
    /\ "_pk" \in DOMAIN last.payload["address"]
    /\ \E k \in 1..Len(last.forwarded) :
           /\ last.forwarded[k].path = <<"address">>
           /\ last.forwarded[k].instance = last.payload["address"]["_pk"]
           /\ last.forwarded[k].data = Without(last.payload["address"], "_pk")

\* the deletions of the call that raised
FailedDeletions == {i \in Steps : last.trace[i].op = "delete_failed"}

\* C16: a delete() that fails during the compensation is not swallowed: the
\* call ends with the exception of the delete, not with the exception that
\* started the compensation.
C16_DeleteFailurePropagates ==
    (Called({"create", "update"}) /\ FailedDeletions # {}) =>
        /\ last.exc = OtherError("DatabaseError", "delete")
        /\ ~IsValidationError(last.exc)
        /\ last.origin.exc = last.exc

\* a tag was created, the next element failed validation, and the delete
\* of the tag raised
C16_Witness ==
    /\ Called({"create", "update"})
    /\ \E i \in FailedDeletions : last.trace[i].model = "Tag" /\ InStore(i)
    /\ \E k \in 1..Len(last.forwarded) :
           /\ last.forwarded[k].path = <<"tags">>
           /\ DOMAIN ValidationErrors(last.forwarded[k].ser, last.forwarded[k].data) # {}
    /\ last.exc.cls = "DatabaseError"

\* the objects the call created, at any depth and the parent included
Creations == {i \in Steps : last.trace[i].op = "create"}

\* C17: a create or update call that succeeds acts on no tracked object: it
\* deletes nothing, every object it created is in the store after it, and so
\* is every object that was there before.
C17_NothingDeletedOnSuccess ==
    (Called({"create", "update"}) /\ ~Failing) =>
        /\ Deletions = {}
        /\ \A i \in Creations : InStore(i)
        /\ \A m \in Models : DOMAIN last.db[m] \subseteq DOMAIN db[m]

\* a create succeeded with a new user, its new address and a new tag
C17_Witness ==
    /\ Called({"create"})
    /\ ~Failing
    /\ \E i \in CreatedAt(2) : InStore(i)
    /\ \E i \in CreatedAt(1) : last.trace[i].model = "User" /\ InStore(i)
    /\ \E i \in CreatedAt(1) : last.trace[i].model = "Tag" /\ InStore(i)
    /\ last.val \in DOMAIN db["Client"]

\* the place of a nested field among the writable fields of the client
\* serializer
FieldIndex(f) ==
    CHOOSE i \in 1..Len(WritableFields("ClientSerializer")) :
        WritableFields("ClientSerializer")[i] = f

\* the store calls made while a nested payload was resolved
ResolutionSteps == {i \in Steps : Len(last.trace[i].path) >= 1}

IsTagsInput(e) == e.path = <<"tags">>

\* what the tag serializer was given, in the order it was given it
TagInputs == SelectSeq(last.forwarded, IsTagsInput)

\* C18: nested payloads are resolved one after another, the fields in the
\* order of their declaration and the elements of a to-many field in the
\* order of the payload: the store calls and the serializer inputs of a
\* field never come before those of a field declared earlier, the k-th
\* input of the element serializer is the k-th element, and the sequence
\* given to set-collection lists the objects in the order of their elements.
C18_ResolutionOrder ==
    Called({"create", "update"}) =>
        /\ \A i, j \in ResolutionSteps :
               i < j => FieldIndex(last.trace[i].path[1])
                            <= FieldIndex(last.trace[j].path[1])
        /\ \A i, j \in 1..Len(last.forwarded) :
               i < j => FieldIndex(last.forwarded[i].path[1])
                            <= FieldIndex(last.forwarded[j].path[1])
        /\ \A k \in 1..Len(TagInputs) :
               TagInputs[k].data = Without(last.payload["tags"][k], "_pk")
        /\ \A i \in SetSteps :
               /\ Len(last.trace[i].ids) = Len(last.payload["tags"])
               /\ \A k \in 1..Len(last.trace[i].ids) :
                      /\ Carries(db, "Tag", last.trace[i].ids[k], "TagSerializer",
                                 last.payload["tags"][k])
                      /\ k > 1 => last.trace[i].ids[k - 1] < last.trace[i].ids[k]

\* a create resolved an address, then two tags of different names, and set
\* the tags in the order of the payload
C18_Witness ==
    /\ Called({"create"})
    /\ ~Failing
    /\ \E i, j \in ResolutionSteps :
           /\ i < j
           /\ last.trace[i].path = <<"address">>
           /\ last.trace[j].path = <<"tags">>
    /\ \E i \in SetSteps :
           /\ Len(last.trace[i].ids) = 2
           /\ db["Tag"][last.trace[i].ids[1]].name = "m"
           /\ db["Tag"][last.trace[i].ids[2]].name = "n"
           /\ last.payload["tags"][1]["name"] = "m"

\* C19: an element of a to-many payload is resolved as a to-one payload is:
\* with the `_pk` of an existing related object and valid values it is
\* validated and saved, with update semantics, by the element serializer
\* bound to that object, and gives created = False and the object.
C19_ToManyElementUpdated ==
    (/\ Called({"resolve"})
     /\ last.field = "tags"
     /\ "_pk" \in DOMAIN last.payload
     /\ last.payload["_pk"] \in DOMAIN last.db["Tag"]
     /\ DOMAIN ValidationErrors("TagSerializer", Without(last.payload, "_pk")) = {})
        => /\ ~Failing
           /\ ~last.created
           /\ last.val = last.payload["_pk"]
           /\ Carries(db, "Tag", last.val, "TagSerializer", last.payload)

\* a call of the group serializer returned
GroupCalled(ops) ==
    last.phase = "returned" /\ last.ser = "GroupSerializer" /\ last.op \in ops

\* the group the call created or updated
Parent == IF last.op = "create" THEN last.val ELSE last.instance

\* the value the group has for a field the payload does not give: the
\* default in a create, the value it had in an update
Kept(f) ==
    IF last.op = "create" THEN ModelDefaults("Group")[f]
    ELSE last.db["Group"][last.instance][f]

\* C20: the fields of the payload that are not relations reach the parent's
\* create() or attribute assignment unchanged, and the relational fields
\* that are not nested serializers are forwarded as they are, a to-one value
\* into the parent's create() or assignment and a to-many value into
\* set-collection, with no nested create, update or lookup made for them.
C20_PassThrough ==
    /\ GroupCalled({"create", "update"}) =>
           /\ \A i \in Steps : last.trace[i].path \in {<<>>, <<"address">>}
           /\ \A k \in 1..Len(last.forwarded) : last.forwarded[k].path = <<"address">>
           /\ db["Tag"] = last.db["Tag"]
    /\ (GroupCalled({"create", "update"}) /\ ~Failing) =>
           /\ db["Group"][Parent].name =
                  IF "name" \in DOMAIN last.payload THEN last.payload["name"]
                  ELSE Kept("name")
           /\ db["Group"][Parent].home =
                  IF "home" \in DOMAIN last.payload THEN last.payload["home"]
                  ELSE Kept("home")
           /\ db["Group"][Parent].labels =
                  IF "labels" \in DOMAIN last.payload
                  THEN {last.payload["labels"][k] : k \in 1..Len(last.payload["labels"])}
                  ELSE Kept("labels")
           /\ "labels" \in DOMAIN last.payload =>
                  \E i \in SetSteps : /\ last.trace[i].id = Parent
                                      /\ last.trace[i].field = "labels"
                                      /\ last.trace[i].ids = last.payload["labels"]

\* an update gave the group a name, another home, a label and a new nested
\* address
C20_Witness ==
    /\ GroupCalled({"update"})
    /\ ~Failing
    /\ DOMAIN last.payload = {"name", "home", "address", "labels"}
    /\ last.db["Group"][last.instance].home = 1
    /\ db["Group"][last.instance].home = 2
    /\ db["Group"][last.instance].name = "n"
    /\ db["Group"][last.instance].labels = {1}
    /\ db["Group"][last.instance].address \notin DOMAIN last.db["Address"]

\* the last store call of the call is the parent's create(), and it raised
ParentCreateFailed ==
    /\ last.phase = "returned" /\ last.op = "create"
    /\ Len(last.trace) > 0
    /\ last.trace[Len(last.trace)].op = "create_failed"
    /\ last.trace[Len(last.trace)].model = SerializerModel(last.ser)
    /\ last.trace[Len(last.trace)].path = <<>>

\* C21: when the store's create() of the parent raises, create() raises a
\* TypeError that names the model, its manager and the serializer class if
\* the store raised a TypeError, and the store's own exception, unchanged,
\* if it raised any other kind.
C21_ParentCreateTypeError ==
    ParentCreateFailed =>
        /\ last.origin.path = <<>>
        /\ IF last.origin.exc.cls = "TypeError"
           THEN last.exc = CreateTypeError(SerializerModel(last.ser), last.ser)
           ELSE last.exc = last.origin.exc

C21_Witness ==
    /\ ParentCreateFailed
    /\ last.ser = "ClientSerializer"
    /\ last.origin.exc = OtherError("TypeError", "create")
    /\ last.exc = CreateTypeError("Client", "ClientSerializer")
    /\ last.exc # last.origin.exc

\* _get_nested_validation_error was called on a validation error
Wrapped == last.phase = "returned" /\ last.op = "wrap" /\ IsValidationError(last.payload)

\* the positions of the mapping arguments of the exception given
MappingArgs == {i \in 1..Len(last.payload.args) : last.payload.args[i].t = "dict"}

\* the last mapping argument of the exception given that has key k
LastWith(k) ==
    CHOOSE i \in MappingArgs :
        /\ k \in DOMAIN last.payload.args[i].d
        /\ \A j \in MappingArgs : k \in DOMAIN last.payload.args[j].d => j <= i

RECURSIVE AppendedFor(_, _)
\* the messages of the first n update_error_dict calls made with key k, in
\* the order of the calls
AppendedFor(k, n) ==
    IF n = 0 THEN <<>>
    ELSE IF appended[n].field_name = k
         THEN Append(AppendedFor(k, n - 1), appended[n].message)
         ELSE AppendedFor(k, n - 1)

\* C29: after any sequence of update_error_dict calls on an error dict, the
\* dict has exactly the keys the calls were made with, and the list under a
\* key is the messages of the calls made with that key, in call order; a
\* call with another key leaves the list as it was.
C29_AppendInCallOrder ==
    /\ DOMAIN errors = {appended[i].field_name : i \in 1..Len(appended)}
    /\ \A k \in DOMAIN errors : errors[k] = AppendedFor(k, Len(appended))

C29_Witness ==
    /\ Len(appended) >= 3
    /\ DOMAIN errors = {"zip_code", NON_FIELD_ERRORS_KEY}
    /\ errors["zip_code"] = <<"At least one is required.", "This field is required.">>
    /\ appended[2].field_name = NON_FIELD_ERRORS_KEY

\* the nested serializers of class cls that the classes hold as copies: the
\* class that holds one, and the name it is declared under
CopiesOf(cls) ==
    {<<c, name>> \in UNION {{c} \X DOMAIN classes[c].declared : c \in DOMAIN classes} :
        /\ IsModelSerializer(classes[c].declared[name])
        /\ classes[c].declared[name].cls = cls}

\* the field list the user wrote on AddressSerializer, when it is a tuple
AddressFields == <<"state", "zip_code">>

\* C22: when AddressSerializer has the explicit field list F and is nested
\* in one or several nested-capable classes, or several times in one, its
\* Meta.fields is F followed by `_pk`, once.
C22_InjectionIdempotent ==
    (/\ "AddressSerializer" \in DOMAIN classes
     /\ ~classes["AddressSerializer"].Meta.fields.all
     /\ CopiesOf("AddressSerializer") # {}) =>
        classes["AddressSerializer"].Meta.fields = FieldNames(Append(AddressFields, "_pk"))

\* get_default_field_names was called on the copy of a nested serializer
\* whose class has Meta.fields = "__all__"
ResolvedAllFields ==
    /\ out.op = "get_default_field_names"
    /\ classes[classes[out.cls].declared[out.name].cls].Meta.fields.all

\* what ModelSerializer.get_default_field_names gives for the arguments of
\* the call
OriginalNames ==
    DefaultFieldNames(out.declared_fields,
                      ModelInfo(SerializerModel(classes[out.cls].declared[out.name].cls)))

\* C23: the get_default_field_names of the copy of a nested serializer with
\* Meta.fields = "__all__" returns what the original method returns for the
\* same arguments, followed by `_pk` as the last name.
C23_AllFieldsResolverAppendsPk ==
    ResolvedAllFields =>
        /\ out.exc = NoExc
        /\ Len(out.val) = Len(OriginalNames) + 1
        /\ SubSeq(out.val, 1, Len(OriginalNames)) = OriginalNames
        /\ out.val[Len(out.val)] = "_pk"

C23_Witness ==
    /\ ResolvedAllFields
    /\ out.cls = "UserSerializer" /\ out.name = "address"
    /\ out.val = <<"id", "_pk", "state", "zip_code", "user", "tags", "_pk">>

\* the class body of the last class statement or _get_meta_fields call has
\* a Meta with fields
HasMetaFields == out.attrs.has_meta /\ out.attrs.Meta.has_fields

\* C27: a class statement with NestedCreateUpdateMetaclass whose body has no
\* Meta, or a Meta without fields, raises ValueError and makes no class; and
\* _get_meta_fields on a body whose Meta has fields returns Meta.fields as
\* it is.
C27_MissingSchemaRejected ==
    /\ (out.op = "class" /\ ~HasMetaFields) =>
           /\ out.exc.cls = "ValueError"
           /\ out.cls \notin DOMAIN classes
    /\ (out.op = "class" /\ HasMetaFields) =>
           /\ out.exc = NoExc
           /\ out.cls \in DOMAIN classes
    /\ (out.op = "_get_meta_fields" /\ ~HasMetaFields) => out.exc.cls = "ValueError"
    /\ (out.op = "_get_meta_fields" /\ HasMetaFields) =>
           /\ out.exc = NoExc
           /\ out.val = out.attrs.Meta.fields

C27_Witness ==
    /\ out.op = "class"
    /\ out.attrs.has_meta /\ ~out.attrs.Meta.has_fields
    /\ Len(out.attrs.body) = 2
    /\ out.exc.cls = "ValueError"
    /\ DOMAIN classes = {"AddressSerializer"}
    /\ classes["AddressSerializer"].declared_names = <<>>

\* is_valid was called on a mapping
ValidatedMapping == out.op = "is_valid" /\ out.data.mapping

\* the serializer of the call is bound to an instance, or the raw input
\* has `_pk`
InUpdateMode == out.instance # None \/ "_pk" \in DOMAIN out.data.d

\* the required list and the OR-group that apply to the call
RequiredList ==
    IF InUpdateMode THEN classes[out.cls].required.on_update
    ELSE classes[out.cls].required.on_create
Group ==
    IF InUpdateMode THEN classes[out.cls].required.on_update_any
    ELSE classes[out.cls].required.on_create_any

\* no field of the OR-group is in the raw input
NonePresent == NameSet(Group) \cap DOMAIN out.data.d = {}

\* the call raised a validation error that has the key
RaisedUnder(key) ==
    /\ out.exc.cls = "ValidationError"
    /\ key \in DOMAIN out.exc.args[1].d

\* C24: with a non-empty OR-group for the mode of the call, is_valid fails
\* with one message under "__all__" exactly when no field of the group is in
\* the raw input: it returns False, or with raise_exception raises the error
\* with that key; when a field of the group is present no error has the key.
C24_RequiredAnyGroup ==
    (ValidatedMapping /\ Len(Group) > 0) =>
        /\ NonePresent => out.val = FALSE
        /\ ~out.raise_exception => out.exc = NoExc
        /\ out.raise_exception => (NonePresent <=> RaisedUnder(NON_FIELD_ERRORS_KEY))
        /\ RaisedUnder(NON_FIELD_ERRORS_KEY) =>
               out.exc.args[1].d[NON_FIELD_ERRORS_KEY] = List(<<AtLeastOne(Group)>>)

C24_Witness ==
    /\ ValidatedMapping /\ out.raise_exception
    /\ Group = <<"state", "zip_code">>
    /\ out.data.d = EmptyMap
    /\ RaisedUnder(NON_FIELD_ERRORS_KEY)
    /\ DOMAIN out.exc.args[1].d = {NON_FIELD_ERRORS_KEY}

\* the fields of the required list that the raw input lacks
Missing == NameSet(RequiredList) \ DOMAIN out.data.d

\* C25: is_valid takes the update lists when the serializer is bound to an
\* instance or the raw input has `_pk`, and the create lists otherwise.  When
\* fields of the list taken are absent from the raw input the call fails:
\* it returns False, or with raise_exception raises one validation error
\* that has "This field is required." under every absent field and no other
\* key but "__all__".  When nothing is absent and the OR-group is met, the
\* outcome is that of the serializer's own is_valid.
C25_RequiredByMode ==
    ValidatedMapping =>
        /\ Missing # {} =>
               /\ out.val = FALSE
               /\ ~out.raise_exception => out.exc = NoExc
               /\ out.raise_exception =>
                      /\ out.exc.cls = "ValidationError"
                      /\ Missing \subseteq DOMAIN out.exc.args[1].d
                      /\ DOMAIN out.exc.args[1].d \subseteq
                             Missing \cup {NON_FIELD_ERRORS_KEY}
                      /\ \A f \in Missing :
                             out.exc.args[1].d[f] = List(<<"This field is required.">>)
        /\ (Missing = {} /\ (Len(Group) = 0 \/ ~NonePresent)) =>
               /\ out.exc = IsValidOrig(classes[out.cls], out.data,
                                        out.raise_exception).exc
               /\ out.val = IsValidOrig(classes[out.cls], out.data,
                                        out.raise_exception).val

C25_Witness ==
    /\ ValidatedMapping /\ out.raise_exception
    /\ out.instance = None
    /\ out.data.d = ("_pk" :> 1)
    /\ classes[out.cls].required.on_update = <<"state", "zip_code">>
    /\ classes[out.cls].required.on_create = <<>>
    /\ out.exc.cls = "ValidationError"
    /\ DOMAIN out.exc.args[1].d = {"state", "zip_code"}

\* the fields a class body lists both in required_fields_on_<op> and in
\* required_fields_on_<op>_any
BothCreate ==
    NameSet(out.attrs.Meta.required_fields_on_create)
    \cap NameSet(out.attrs.Meta.required_fields_on_create_any)
BothUpdate ==
    NameSet(out.attrs.Meta.required_fields_on_update)
    \cap NameSet(out.attrs.Meta.required_fields_on_update_any)

\* the ValueError that names the fields of the set, in some order
Names(set, op) ==
    {ConflictError(SelectSeq(order, LAMBDA f : f \in set), op) : order \in Orders}

\* C26: a class statement with FieldOptionsMetaclass whose Meta lists a
\* field both in required_fields_on_create and required_fields_on_create_any,
\* or both in required_fields_on_update and required_fields_on_update_any,
\* raises a ValueError that names the fields listed twice, and makes no
\* class; without such a field the statement makes the class.
C26_ConflictingRequiredRejected ==
    out.op = "class" =>
        /\ BothCreate # {} => out.exc \in Names(BothCreate, "create")
        /\ (BothCreate = {} /\ BothUpdate # {}) => out.exc \in Names(BothUpdate, "update")
        /\ (BothCreate # {} \/ BothUpdate # {}) => out.cls \notin DOMAIN classes
        /\ (BothCreate = {} /\ BothUpdate = {}) =>
               /\ out.exc = NoExc
               /\ out.cls \in DOMAIN classes

C26_Witness ==
    /\ out.op = "class"
    /\ out.attrs.Meta.required_fields_on_create = <<"zip_code">>
    /\ out.attrs.Meta.required_fields_on_create_any = <<"state", "zip_code">>
    /\ out.exc = ConflictError(<<"zip_code">>, "create")
    /\ classes = EmptyMap

\* the common_field_params and the extra_kwargs the class body gives, and
\* the fields its entries list
GivenEntries == out.attrs.Meta.common_field_params
GivenKwargs == out.attrs.Meta.extra_kwargs
Listed == UNION {NameSet(GivenEntries[j].fields) : j \in 1..Len(GivenEntries)}

RECURSIVE Accumulated(_, _)
\* the parameters the first n entries give field f: those of every entry
\* that lists f, a later entry's value for a key in place of an earlier one's
Accumulated(f, n) ==
    IF n = 0 THEN EmptyMap
    ELSE IF f \in NameSet(GivenEntries[n].fields)
         THEN Updated(Accumulated(f, n - 1), GivenEntries[n].params)
         ELSE Accumulated(f, n - 1)

\* every parameter of params is in m, with its value
Holds(m, params) == \A k \in DOMAIN params : k \in DOMAIN m /\ m[k] = params[k]

\* C30: after a class statement with FieldOptionsMetaclass, every field that
\* an entry of common_field_params lists has the parameters of all the
\* entries that list it: on the field object and in its _kwargs when the
\* class declares the field; in Meta.extra_kwargs, next to what was there
\* for other keys, when the field is not declared and Meta.fields is
\* "__all__" or has the field; and when it is neither declared nor in
\* Meta.fields, extra_kwargs gets no entry for it and keeps the one it had.
C30_CommonFieldParams ==
    (out.op = "class" /\ out.exc = NoExc) =>
        \A f \in Listed :
            LET made == classes[out.cls]
                params == Accumulated(f, Len(GivenEntries))
            IN
            IF f \in DOMAIN DeclaredFields(out.attrs.body)
            THEN /\ Holds(made.declared[f].attrs, params)
                 /\ Holds(made.declared[f].kwargs, params)
            ELSE IF out.attrs.Meta.fields.all
                    \/ f \in NameSet(out.attrs.Meta.fields.names)
            THEN /\ f \in DOMAIN made.Meta.extra_kwargs
                 /\ Holds(made.Meta.extra_kwargs[f], params)
                 /\ f \in DOMAIN GivenKwargs =>
                        \A k \in DOMAIN GivenKwargs[f] \ DOMAIN params :
                            /\ k \in DOMAIN made.Meta.extra_kwargs[f]
                            /\ made.Meta.extra_kwargs[f][k] = GivenKwargs[f][k]
            ELSE /\ f \in DOMAIN made.Meta.extra_kwargs <=> f \in DOMAIN GivenKwargs
                 /\ f \in DOMAIN GivenKwargs =>
                        made.Meta.extra_kwargs[f] = GivenKwargs[f]

C30_Witness ==
    /\ out.op = "class" /\ out.exc = NoExc
    /\ out.attrs.Meta.fields = FieldNames(<<"state">>)
    /\ out.attrs.body = <<>>
    /\ Len(GivenEntries) = 2
    /\ Listed = {"state", "zip_code"}
    /\ DOMAIN classes[out.cls].Meta.extra_kwargs = {"state"}
    /\ DOMAIN classes[out.cls].Meta.extra_kwargs["state"] =
           {"required", "allow_blank", "max_length"}

\* a class statement with FieldOptionsMetaclass made a class
OptionsClassMade ==
    /\ out.op = "class" /\ out.exc = NoExc
    /\ out.cls \in DOMAIN classes
    /\ classes[out.cls].metaclass = "FieldOptionsMetaclass"

\* the names a flag can be set for: the fields of the model and `_pk`
FlagNames == NameSet(ModelInfo("Address").fields) \cup {"_pk"}

\* the class body declares f, or Meta.fields has it ("__all__" has every name)
DeclaredOrInFields(f) ==
    \/ f \in DOMAIN DeclaredFields(out.attrs.body)
    \/ out.attrs.Meta.fields.all
    \/ f \in NameSet(out.attrs.Meta.fields.names)

\* the "required" that the mapping kw of parameters has for f; absent: "default"
RequiredIn(kw, f) ==
    IF f \in DOMAIN kw /\ "required" \in DOMAIN kw[f]
    THEN IF kw[f]["required"] THEN "True" ELSE "False"
    ELSE "default"

\* field f of the class made is required=False: on the declared field
\* object and in its _kwargs, or in Meta.extra_kwargs
MadeNonRequired(f) ==
    LET made == classes[out.cls] IN
    IF f \in DOMAIN made.declared
    THEN /\ RequiredIn([x \in {f} |-> made.declared[f].attrs], f) = "False"
         /\ RequiredIn([x \in {f} |-> made.declared[f].kwargs], f) = "False"
    ELSE RequiredIn(made.Meta.extra_kwargs, f) = "False"

\* field f of the class made has the required flag the class statement
\* gave it: that of the declared field object, or that of Meta.extra_kwargs
KeepsRequired(f) ==
    LET made == classes[out.cls] IN
    IF f \in DOMAIN made.declared
    THEN /\ RequiredIn([x \in {f} |-> made.declared[f].attrs], f) =
                RequiredIn([x \in {f} |-> DeclaredFields(out.attrs.body)[f].attrs], f)
         /\ RequiredIn([x \in {f} |-> made.declared[f].kwargs], f) =
                RequiredIn([x \in {f} |-> DeclaredFields(out.attrs.body)[f].kwargs], f)
    ELSE RequiredIn(made.Meta.extra_kwargs, f) = RequiredIn(GivenKwargs, f)

\* C31: after a class statement with FieldOptionsMetaclass: without
\* Meta.non_required_fields and with a tuple as Meta.fields, every field of
\* Meta.fields is required=False; without it and with Meta.fields "__all__",
\* every field of the model keeps its required flag; with it (the empty tuple
\* included), the listed names and `_pk` that the body declares or Meta.fields
\* contains are required=False and every other name keeps its flag.
C31_NonRequiredFields ==
    OptionsClassMade =>
        LET Meta == out.attrs.Meta IN
        /\ (~Meta.has_non_required_fields /\ ~Meta.fields.all) =>
               \A f \in NameSet(Meta.fields.names) : MadeNonRequired(f)
        /\ (~Meta.has_non_required_fields /\ Meta.fields.all) =>
               \A f \in NameSet(ModelInfo("Address").fields) : KeepsRequired(f)
        /\ Meta.has_non_required_fields =>
               \A f \in FlagNames :
                   IF f \in NameSet(Meta.non_required_fields) \cup {"_pk"}
                      /\ DeclaredOrInFields(f)
                   THEN MadeNonRequired(f)
                   ELSE KeepsRequired(f)

\* a class with Meta.fields = ("state", "zip_code"), state required by
\* extra_kwargs and non_required_fields = ("zip_code",): zip_code is
\* required=False, state is still required
C31_Witness ==
    /\ OptionsClassMade
    /\ out.attrs.Meta.has_non_required_fields
    /\ out.attrs.Meta.non_required_fields = <<"zip_code">>
    /\ out.attrs.Meta.fields = FieldNames(<<"state", "zip_code">>)
    /\ RequiredIn(GivenKwargs, "state") = "True"
    /\ MadeNonRequired("zip_code")
    /\ IsRequired(classes[out.cls], "state")
    /\ ~IsRequired(classes[out.cls], "zip_code")

\* the messages an error content carries: the string, the strings of the
\* list, the strings of the lists of the mapping
ArgMessages(a) ==
    IF a.t = "str" THEN {a.s}
    ELSE IF a.t = "list" THEN NameSet(a.l)
    ELSE UNION {NameSet(a.d[k].l) : k \in DOMAIN a.d}

\* C34: _get_nested_validation_error on a validation error built on one
\* content, a mapping, a list of messages or a single string, returns an
\* error that has every message of that content under the nested field
\* name, and the value under the field name is not the empty mapping.
C34_WrapKeepsContent ==
    (Wrapped /\ Len(last.payload.args) = 1) =>
        /\ ~Failing
        /\ last.field \in DOMAIN last.val.args[1].d
        /\ last.val.args[1].d[last.field].d # EmptyMap
        /\ ArgMessages(last.payload.args[1])
               \subseteq ArgMessages(last.val.args[1].d[last.field])

\* C37: a class statement with NestedCreateUpdateMetaclass leaves every
\* class that exists as it is: the class of a serializer the body nests
\* keeps its _declared_fields and its Meta.fields, and `_pk` is carried by
\* the copy on the new class only.
C37_DeclaredSerializerUnchanged ==
    [][\A cls \in DOMAIN classes : classes'[cls] = classes[cls]]_vars

\* the inputs of nested serializers in the call, by position
Inputs == 1..Len(last.forwarded)

\* the nested serializer rejects its k-th input
InvalidInput(k) ==
    DOMAIN ValidationErrors(last.forwarded[k].ser, last.forwarded[k].data) # {}

\* the store call of step i, made for a nested payload, ends the resolution
\* of that payload with an exception: a create() or save() that raises, a
\* lookup that finds nothing, a lookup for an element of a to-many field
FailedStep(i) ==
    /\ Len(last.trace[i].path) >= 1
    /\ \/ last.trace[i].op \in {"create_failed", "save_failed"}
       \/ NotFoundAt(i)
       \/ /\ last.trace[i].op = "get"
          /\ Len(last.trace[i].path) = 1
          /\ Field("ClientSerializer", last.trace[i].path[1]).many

\* a nested field or an element of the call failed
NestedFailed ==
    /\ Called({"create", "update"})
    /\ \/ \E k \in Inputs : InvalidInput(k)
       \/ \E i \in Steps : FailedStep(i)

\* from step i on the call only deletes
OnlyDeletesAfter(i) ==
    \A j \in Steps : j > i => last.trace[j].op \in {"delete", "delete_failed"}

\* C33: once a nested field or an element of a create or update call has
\* failed, the call makes no store call but the deletions of the compensation
\* and gives no input to a nested serializer; the failure it reports, unless
\* a deletion raises, is the one raised for that payload, keyed by its field
\* when it is a validation error; the parent is not created, not saved and
\* not changed, and no collection is set.
C33_FailFast ==
    NestedFailed =>
        /\ Failing
        /\ \A i \in Steps :
               FailedStep(i) =>
                   /\ OnlyDeletesAfter(i)
                   /\ \A k \in Inputs : last.forwarded[k].at < i
                   /\ FailedDeletions = {} => last.origin.path = last.trace[i].path
        /\ \A k \in Inputs :
               InvalidInput(k) =>
                   /\ k = Len(last.forwarded)
                   /\ OnlyDeletesAfter(last.forwarded[k].at)
                   /\ FailedDeletions = {} => last.origin.path = last.forwarded[k].path
        /\ (FailedDeletions = {} /\ IsValidationError(last.exc)) =>
               DOMAIN last.exc.args[1].d = {last.origin.path[1]}
        /\ \A i \in Steps :
               last.trace[i].path = <<>> => last.trace[i].op \in {"delete", "delete_failed"}
        /\ SetSteps = {}
        /\ db["Client"] = last.db["Client"]

\* a create resolved an address, then the first of two tags failed
\* validation: the second tag, a valid one, was given to no serializer and
\* no tag was created
C33_Witness ==
    /\ Called({"create"})
    /\ NestedFailed
    /\ "address" \in DOMAIN last.payload
    /\ \E i \in CreatedAt(1) : last.trace[i].path = <<"address">>
    /\ "tags" \in DOMAIN last.payload
    /\ Len(last.payload["tags"]) = 2
    /\ InvalidInput(Len(last.forwarded))
    /\ DOMAIN ValidationErrors("TagSerializer", last.payload["tags"][2]) = {}
    /\ "_pk" \notin DOMAIN last.payload["tags"][2]
    /\ Len(TagInputs) = 1
    /\ db["Tag"] = last.db["Tag"]
    /\ seq["Tag"] = Cardinality(DOMAIN last.db["Tag"])

\* steps j and i are store calls on the same object
SameObject(j, i) ==
    /\ last.trace[j].model = last.trace[i].model
    /\ last.trace[j].id = last.trace[i].id

\* the creations that the compensation of step i tracks: those made for the
\* nested payloads one field below the payload the compensation belongs to
TrackedAt(i) ==
    {j \in Creations :
        /\ j < i
        /\ Len(last.trace[j].path) = Len(last.trace[i].path) + 1
        /\ SubSeq(last.trace[j].path, 1, Len(last.trace[i].path)) = last.trace[i].path}

\* the tracked creations that no step before i has deleted
PendingAt(i) ==
    {j \in TrackedAt(i) :
        \A k \in Steps : (j < k /\ k < i /\ last.trace[k].op = "delete")
                             => ~SameObject(k, j)}

\* C35: when a delete() of the compensation raises, the tracked objects that
\* were not deleted before it, the object of the failed delete among them,
\* are deleted by no later step of the call and are in the store when the
\* call has ended.
C35_SinglePassCompensation ==
    Called({"create", "update"}) =>
        \A i \in FailedDeletions :
            /\ \E j \in PendingAt(i) : SameObject(j, i)
            /\ \A j \in PendingAt(i) :
                   /\ InStore(j)
                   /\ \A k \in Steps : (k > i /\ last.trace[k].op = "delete")
                                           => ~SameObject(k, j)

\* two objects were tracked, the first delete of the compensation raised
\* and the other object, whose delete was still to come, is in the store
C35_Witness ==
    /\ Called({"create", "update"})
    /\ \E i \in FailedDeletions :
           /\ Cardinality(TrackedAt(i)) = 2
           /\ PendingAt(i) = TrackedAt(i)
           /\ \E j \in PendingAt(i) : ~SameObject(j, i) /\ InStore(j)

\* the objects the call resolved the elements of the tags payload to
ResolvedTags ==
    {last.trace[i].id : i \in {j \in Steps : /\ last.trace[j].path = <<"tags">>
                                             /\ last.trace[j].op \in {"create", "save"}}}

\* C36: after a create or an update of a client that succeeds, the tags of
\* the client are exactly the objects the elements of the payload's tags were
\* resolved to when the payload has tags (the members it had before and the
\* payload does not give are detached), and are what they were (none, for a
\* new client) when the payload has no tags.
C36_ToManyReplaced ==
    (Called({"create", "update"}) /\ ~Failing) =>
        db["Client"][Parent].tags =
            IF "tags" \in DOMAIN last.payload THEN ResolvedTags
            ELSE IF last.op = "create" THEN {}
            ELSE last.db["Client"][last.instance].tags

\* a class statement with InheritableExtendedSerializerMetaclass was run
InheritableStated == out.op = "class" /\ "bases" \in DOMAIN out

\* the items of the i-th base's __dict__ whose name does not start with two
\* underscores and is not Meta, and whose value cannot be called
KeptItems(i) ==
    {k \in 1..Len(out.bases[i].dict) :
        /\ out.bases[i].dict[k].name \notin {"__module__", "__doc__", "Meta"}
        /\ out.bases[i].dict[k].value.kind \notin {"function", "class"}}

BaseHas(i, name) == \E k \in KeptItems(i) : out.bases[i].dict[k].name = name

BaseValue(i, name) ==
    out.bases[i].dict[CHOOSE k \in KeptItems(i) : out.bases[i].dict[k].name = name].value

\* the first base of the tuple that has the name
Earliest(name) ==
    CHOOSE i \in 1..Len(out.bases) :
        BaseHas(i, name) /\ \A j \in 1..(i - 1) : ~BaseHas(j, name)

BodyNames == {out.attrs.body[k].name : k \in 1..Len(out.attrs.body)}

BodyValue(name) ==
    out.attrs.body[CHOOSE k \in 1..Len(out.attrs.body) :
                       out.attrs.body[k].name = name].value

\* the names the bases give
BaseNames ==
    UNION {{out.bases[i].dict[k].name : k \in KeptItems(i)} : i \in 1..Len(out.bases)}

\* C39: the class body that InheritableExtendedSerializerMetaclass hands on
\* has, once each, the names of the body and the names of the attributes of
\* the bases that do not start with two underscores, are not Meta and cannot
\* be called; a name of the body has the value of the body, any other name
\* the value of the first base of the tuple that has it; and the fields
\* among them are the declared fields of the class made.
C39_InheritedAttributes ==
    InheritableStated =>
        /\ {out.merged[k].name : k \in 1..Len(out.merged)} = BodyNames \cup BaseNames
        /\ \A k, l \in 1..Len(out.merged) :
               k # l => out.merged[k].name # out.merged[l].name
        /\ \A k \in 1..Len(out.merged) :
               out.merged[k].value =
                   IF out.merged[k].name \in BodyNames
                   THEN BodyValue(out.merged[k].name)
                   ELSE BaseValue(Earliest(out.merged[k].name), out.merged[k].name)
        /\ out.exc = NoExc =>
               DOMAIN classes[out.cls].declared \ {"_pk"} =
                   {out.merged[k].name :
                        k \in {l \in 1..Len(out.merged) : IsField(out.merged[l].value)}}

\* bases (Common, Other), both with `field`, Common with a method `helper`
\* and Other with a value `helper`; the body has a method `helper`: the
\* class has Common's field, Other's nested address and its own helper
C39_Witness ==
    /\ InheritableStated
    /\ out.exc = NoExc
    /\ Len(out.bases) = 2
    /\ out.bases[1].name = "Common" /\ out.bases[2].name = "Other"
    /\ BodyNames = {"name", "helper"}
    /\ {out.merged[k].name : k \in 1..Len(out.merged)} =
           {"field", "address", "name", "helper"}
    /\ \E k \in 1..Len(out.merged) :
           /\ out.merged[k].name = "field"
           /\ out.merged[k].value.cls = "IntegerField"
    /\ \E k \in 1..Len(out.merged) :
           /\ out.merged[k].name = "helper"
           /\ out.merged[k].value.kind = "function"
    /\ classes[out.cls].declared["field"].cls = "IntegerField"
    /\ "address" \in DOMAIN classes[out.cls].declared

----------------------------------------------------------------------------
(* Properties of the calls that run at the same time: calls[c].trace holds *)
(* the store calls of caller c, db is the store they share.                *)

\* the store calls of caller c, by position
CallSteps(c) == 1..Len(calls[c].trace)

\* store call i of caller c is made on the object of store call j of caller d
OnSameObject(c, i, d, j) ==
    /\ calls[c].trace[i].model = calls[d].trace[j].model
    /\ calls[c].trace[i].id = calls[d].trace[j].id

\* the instance.delete() calls of caller c
DeletesOf(c) ==
    {i \in CallSteps(c) : calls[c].trace[i].op \in {"delete", "delete_failed"}}

\* the objects that the call of caller c created
CreatesOf(c) == {i \in CallSteps(c) : calls[c].trace[i].op = "create"}

\* C32: when calls run interleaved on one store, every instance.delete() of
\* a call is made on an object that this call created before, never on an
\* object that another call created, and the instances a call is about to
\* delete are instances it created itself
C32_CompensationIsolated ==
    \A c \in DOMAIN calls :
        /\ \A i \in DeletesOf(c) :
             /\ \E j \in CreatesOf(c) : j < i /\ OnSameObject(c, i, c, j)
             /\ \A d \in DOMAIN calls \ {c} :
                    \A j \in CreatesOf(d) : ~OnSameObject(c, i, d, j)
        /\ \A h \in calls[c].todo :
             /\ \E j \in CreatesOf(c) : Handle(calls[c].trace[j].model,
                                               calls[c].trace[j].id) = h
             /\ \A d \in DOMAIN calls \ {c} :
                    \A j \in CreatesOf(d) : Handle(calls[d].trace[j].model,
                                                   calls[d].trace[j].id) # h

\* a call has raised after it deleted an object it created, while another
\* call, which created an object of the same model earlier and is still
\* running, has its object in the store
C32_Witness ==
    \E c \in DOMAIN calls, d \in DOMAIN calls :
        /\ c # d
        /\ calls[c].pc = "raised"
        /\ calls[d].pc \in {"resolving", "writing", "setting"}
        /\ \E i \in DeletesOf(c), j \in CreatesOf(d) :
             /\ calls[c].trace[i].op = "delete"
             /\ calls[d].trace[j].model = calls[c].trace[i].model
             /\ calls[d].trace[j].id < calls[c].trace[i].id
             /\ calls[d].trace[j].id \in DOMAIN db[calls[d].trace[j].model]

\* the call of caller c has begun and has not ended
Running(c) == calls[c].pc \in {"resolving", "compensating", "writing", "setting"}

\* the call of caller c has returned or raised
Ended(c) == calls[c].pc \in {"returned", "raised"}

\* the loops of the call b are further on than those of the call a
FurtherOn(a, b) == b.i > a.i \/ (b.i = a.i /\ b.k > a.k)

\* what the caller gets from a call that has ended: the parent, or an
\* exception raised when no instance is left to delete or a delete raised
EndsWell(c) ==
    /\ calls[c].pc = "returned" =>
           /\ calls[c].val \in DOMAIN db[SerializerModel(CallSerializer)]
           /\ calls[c].op = "update" => calls[c].val = calls[c].instance
    /\ calls[c].pc = "raised" =>
           /\ calls[c].exc.cls # "none"
           /\ calls[c].todo = {} \/ calls[c].exc = OtherError("DatabaseError", "delete")

\* C38: a call that has begun ends, by returning the parent or by raising
\* with nothing left to delete; every step of its loops takes them further
\* on, to the next field or element, and never back into them; and a call
\* that has not ended can take its next step whatever the other calls do
C38_Termination ==
    /\ \A c \in Callers : Running(c) ~> Ended(c)
    /\ [](\A c \in Callers : EndsWell(c))
    /\ [][\A c \in Callers :
            /\ (calls[c].pc = "resolving" /\ calls'[c] # calls[c]) =>
                   (calls'[c].pc # "resolving" \/ FurtherOn(calls[c], calls'[c]))
            /\ calls[c].pc \notin {"idle", "resolving"} => calls'[c].pc # "resolving"
            /\ Ended(c) => calls'[c] = calls[c]]_vars
    /\ [](\A c \in Callers : Running(c) => ENABLED Run(c))

\* a call has returned the parent after it resolved two elements of a list,
\* and another call has raised after it deleted what it created
C38_Witness ==
    \E c \in DOMAIN calls, d \in DOMAIN calls :
        /\ c # d
        /\ calls[c].pc = "returned"
        /\ "tags" \in DOMAIN calls[c].many /\ Len(calls[c].many["tags"]) = 2
        /\ calls[d].pc = "raised"
        /\ \E i \in DeletesOf(d) : calls[d].trace[i].op = "delete"

====
